---- MODULE Spec2Model ----
(***************************************************************************)
(* The payslip text parser of backend/app/routers/payslip.py and the       *)
(* upload pipeline around it (_parse_text, _categorize_items, _parse_file, *)
(* _recalc_totals, upload_payslip).                                        *)
(*                                                                         *)
(* A Python str is a sequence of one-character strings.  An ASCII          *)
(* character stands for itself; any other character is written by its code *)
(* point, "u652F" for U+652F, and the comment beside a literal gives the    *)
(* text.  None is "None" where the value is a str (section, category) and  *)
(* <<>> where it is an int (a total): an int n that is set is <<n>>.       *)
(***************************************************************************)
EXTENDS Integers, Sequences, FiniteSets, TLC

\* _clean_amount rejects a digit string longer than this (payslip.py 253)
MaxDigits == 9

\* amounts below this magnitude are skipped outside attendance (payslip.py 552)
SmallAmount == 10

\* _TRANS_TABLE (payslip.py 47-67): character -> replacement string
_TRANS_TABLE ==
    <<
      <<"uFF10", <<"0">>>>,  \* ０ -> '0'
      <<"uFF11", <<"1">>>>,  \* １ -> '1'
      <<"uFF12", <<"2">>>>,  \* ２ -> '2'
      <<"uFF13", <<"3">>>>,  \* ３ -> '3'
      <<"uFF14", <<"4">>>>,  \* ４ -> '4'
      <<"uFF15", <<"5">>>>,  \* ５ -> '5'
      <<"uFF16", <<"6">>>>,  \* ６ -> '6'
      <<"uFF17", <<"7">>>>,  \* ７ -> '7'
      <<"uFF18", <<"8">>>>,  \* ８ -> '8'
      <<"uFF19", <<"9">>>>,  \* ９ -> '9'
      <<"uFF0B", <<"+">>>>,  \* ＋ -> '+'
      <<"uFF0D", <<"-">>>>,  \* － -> '-'
      <<"uFF08", <<"(">>>>,  \* （ -> '('
      <<"uFF09", <<")">>>>,  \* ） -> ')'
      <<"uFF0C", <<",">>>>,  \* ， -> ','
      <<"uFFE5", <<>>>>,  \* ￥ -> ''
      <<"u00A5", <<>>>>  \* ¥ -> ''
    >>

\* _deduction_keywords (payslip.py 69)
_deduction_keywords ==
    <<
      <<"u7A0E">>,  \* 税
      <<"u4FDD", "u967A">>,  \* 保険
      <<"u63A7", "u9664">>,  \* 控除
      <<"u6599">>,  \* 料
      <<"u5DEE", "u5F15">>,  \* 差引
      <<"u4FDD", "u967A", "u6599", "u6539", "u5B9A">>,  \* 保険料改定
      <<"u7CBE", "u7B97">>  \* 精算
    >>

\* QUANTITY_UNITS (payslip.py 73)
QUANTITY_UNITS ==
    <<
      <<"u65E5">>,  \* 日
      <<"u4EBA">>,  \* 人
      <<"u6642", "u9593">>,  \* 時間
      <<"u56DE">>,  \* 回
      <<"u56DE", "u6570">>,  \* 回数
      <<"u9031">>  \* 週
    >>

\* the alternatives of ATTENDANCE_PATTERN (payslip.py 75), each anchored at the end
ATTENDANCE_PATTERN ==
    <<
      <<"u65E5", "u6570">>,  \* 日数
      <<"u6642", "u9593">>,  \* 時間
      <<"u56DE">>,  \* 回
      <<"u56DE", "u6570">>,  \* 回数
      <<"u4EBA">>,  \* 人
      <<"u9031">>  \* 週
    >>

\* GROSS_KEYS (payslip.py 77)
GROSS_KEYS ==
    {
      <<"g", "r", "o", "s", "s">>,  \* gross
      <<"u7DCF", "u652F", "u7D66">>,  \* 総支給
      <<"u652F", "u7D66", "u7DCF", "u984D">>,  \* 支給総額
      <<"u652F", "u7D66", "u5408", "u8A08">>,  \* 支給合計
      <<"u7DCF", "u652F", "u7D66", "u984D">>  \* 総支給額
    }

\* NET_KEYS (payslip.py 78)
NET_KEYS ==
    {
      <<"n", "e", "t">>,  \* net
      <<"u624B", "u53D6", "u308A">>,  \* 手取り
      <<"u5DEE", "u5F15", "u652F", "u7D66", "u984D">>  \* 差引支給額
    }

\* DEDUCTION_KEYS (payslip.py 79)
DEDUCTION_KEYS ==
    {
      <<"d", "e", "d", "u", "c", "t", "i", "o", "n">>,  \* deduction
      <<"u63A7", "u9664", "u5408", "u8A08">>  \* 控除合計
    }

\* the alternatives of _TOTAL_EXCLUDE (payslip.py 82)
_TOTAL_EXCLUDE ==
    <<
      <<"u7D2F", "u8A08">>,  \* 累計
      <<"u5BFE", "u8C61", "u984D">>,  \* 対象額
      <<"u975E", "u8AB2", "u7A0E">>  \* 非課税
    >>

\* SECTION_BEGIN (payslip.py 85-88), in dict order: <<header, section, end marker>>
SECTION_BEGIN ==
    <<
      <<<<"u652F", "u7D66", "u9805", "u76EE">>, "payment", <<"u652F", "u7D66", "u5408", "u8A08">>>>,  \* 支給項目: (payment, 支給合計)
      <<<<"u63A7", "u9664", "u9805", "u76EE">>, "deduction", <<"u63A7", "u9664", "u5408", "u8A08">>>>  \* 控除項目: (deduction, 控除合計)
    >>

\* the alternatives of SKIP_PAT (payslip.py 89)
SKIP_PAT ==
    <<
      <<"u6A19", "u6E96", "u5831", "u916C">>,  \* 標準報酬
      <<"u4FDD", "u967A", "u6599", "u6539", "u5B9A">>,  \* 保険料改定
      <<"u5BFE", "u8C61", "u984D">>,  \* 対象額
      <<"u7D2F", "u8A08">>,  \* 累計
      <<"u975E", "u8AB2", "u7A0E">>  \* 非課税
    >>

\* CATEGORY_MAP (payslip.py 92-108): <<name, category>>
CATEGORY_MAP ==
    <<
      <<<<"u5065", "u5EB7", "u4FDD", "u967A", "u6599">>, "deduction">>,  \* 健康保険料: deduction
      <<<<"u539A", "u751F", "u5E74", "u91D1", "u4FDD", "u967A">>, "deduction">>,  \* 厚生年金保険: deduction
      <<<<"u96C7", "u7528", "u4FDD", "u967A", "u6599">>, "deduction">>,  \* 雇用保険料: deduction
      <<<<"u6240", "u5F97", "u7A0E">>, "deduction">>,  \* 所得税: deduction
      <<<<"u672C", "u7D66">>, "payment">>,  \* 本給: payment
      <<<<"u652F", "u7D66", "u984D">>, "payment">>,  \* 支給額: payment
      <<<<"u901A", "u52E4", "u8CBB", "u88DC", "u52A9">>, "payment">>,  \* 通勤費補助: payment
      <<<<"u6771", "u53CB", "u4F1A", "u8CBB">>, "deduction">>,  \* 東友会費: deduction
      <<<<"u5171", "u6E08", "u4F1A", "u8CBB">>, "deduction">>,  \* 共済会費: deduction
      <<<<"u793E", "u54E1", "u4F1A", "u8CBB">>, "deduction">>,  \* 社員会費: deduction
      <<<<"u63A7", "u9664", "u5408", "u8A08">>, "deduction">>,  \* 控除合計: deduction
      <<<<"u5DEE", "u5F15", "u652F", "u7D66", "u984D">>, "net">>,  \* 差引支給額: net
      <<<<"u96C7", "u4FDD", "u5BFE", "u8C61", "u984D">>, "skip">>,  \* 雇保対象額: skip
      <<<<"u5F53", "u6708", "u6240", "u5F97", "u7A0E", "u7D2F", "u8A08">>, "skip">>,  \* 当月所得税累計: skip
      <<<<"u53E3", "u5EA7", "u632F", "u8FBC", "u984D">>, "net">>  \* 口座振込額: net
    >>

\* KNOWN_SECTION_LABELS (payslip.py 111-150)
KNOWN_SECTION_LABELS ==
    <<
      <<"u652F", "u7D66", "u9805", "u76EE">>,  \* 支給項目
      <<"u63A7", "u9664", "u9805", "u76EE">>,  \* 控除項目
      <<"u5C31", "u696D", "u9805", "u76EE">>,  \* 就業項目
      <<"u5F53", "u6708", "u6B04">>,  \* 当月欄
      <<"u5E74", "u9593", "u7D2F", "u8A08", "u6B04">>,  \* 年間累計欄
      <<"u57FA", "u672C", "u60C5", "u5831">>,  \* 基本情報
      <<"u793E", "u54E1", "u60C5", "u5831">>,  \* 社員情報
      <<"u52E4", "u6020", "u60C5", "u5831">>,  \* 勤怠情報
      <<"u52E4", "u52D9", "u60C5", "u5831">>,  \* 勤務情報
      <<"u500B", "u4EBA", "u60C5", "u5831">>,  \* 個人情報
      <<"u6240", "u5C5E", "u60C5", "u5831">>,  \* 所属情報
      <<"u652F", "u7D66", "u5185", "u8A33">>,  \* 支給内訳
      <<"u63A7", "u9664", "u5185", "u8A33">>,  \* 控除内訳
      <<"u52E4", "u6020", "u660E", "u7D30">>,  \* 勤怠明細
      <<"u52E4", "u6020", "u9805", "u76EE">>,  \* 勤怠項目
      <<"u5F53", "u6708", "u660E", "u7D30">>,  \* 当月明細
      <<"u5E74", "u9593", "u7D2F", "u8A08">>,  \* 年間累計
      <<"u5DEE", "u5F15", "u652F", "u7D66", "u984D", "u6B04">>,  \* 差引支給額欄
      <<"u8CDE", "u4E0E", "u660E", "u7D30">>,  \* 賞与明細
      <<"u8CDE", "u4E0E", "u6B04">>,  \* 賞与欄
      <<"u624B", "u5F53", "u9805", "u76EE">>,  \* 手当項目
      <<"u4FDD", "u967A", "u6599", "u660E", "u7D30">>,  \* 保険料明細
      <<"u305D", "u306E", "u4ED6">>,  \* その他
      <<"u5099", "u8003", "u6B04">>,  \* 備考欄
      <<"u652F", "u7D66", "u5408", "u8A08", "u6B04">>,  \* 支給合計欄
      <<"u63A7", "u9664", "u5408", "u8A08", "u6B04">>,  \* 控除合計欄
      <<"u8AB2", "u7A0E", "u5BFE", "u8C61", "u984D">>,  \* 課税対象額
      <<"u793E", "u4F1A", "u4FDD", "u967A", "u5BFE", "u8C61", "u984D">>,  \* 社会保険対象額
      <<"u96C7", "u4FDD", "u5BFE", "u8C61", "u984D">>,  \* 雇保対象額
      <<"u9000", "u8077", "u91D1", "u5BFE", "u8C61", "u984D">>,  \* 退職金対象額
      <<"u5E74", "u672B", "u8ABF", "u6574", "u5BFE", "u8C61", "u984D">>,  \* 年末調整対象額
      <<"uFF7C", "uFF77", "uFF6D", "uFF73", "uFF7A", "uFF73", "uFF93", "uFF78">>,  \* ｼｷｭｳｺｳﾓｸ
      <<"uFF7A", "uFF73", "uFF7C", "uFF9E", "uFF6E", "uFF73", "uFF7A", "uFF73", "uFF93", "uFF78">>,  \* ｺｳｼﾞｮｳｺｳﾓｸ
      <<"uFF7C", "uFF6D", "uFF73", "uFF77", "uFF9E", "uFF6E", "uFF73", "uFF7A", "uFF73", "uFF93", "uFF78">>  \* ｼｭｳｷﾞｮｳｺｳﾓｸ
    >>

\* SECTION_MAP (payslip.py 153-166), in dict order: <<header, section>>
SECTION_MAP ==
    <<
      <<<<"u652F", "u7D66", "u9805", "u76EE">>, "payment">>,  \* 支給項目: payment
      <<<<"u63A7", "u9664", "u9805", "u76EE">>, "deduction">>,  \* 控除項目: deduction
      <<<<"u5C31", "u696D", "u9805", "u76EE">>, "attendance">>,  \* 就業項目: attendance
      <<<<"u52E4", "u6020", "u9805", "u76EE">>, "attendance">>,  \* 勤怠項目: attendance
      <<<<"u52E4", "u6020", "u660E", "u7D30">>, "attendance">>,  \* 勤怠明細: attendance
      <<<<"u52E4", "u6020", "u60C5", "u5831">>, "attendance">>,  \* 勤怠情報: attendance
      <<<<"u52E4", "u52D9", "u60C5", "u5831">>, "attendance">>,  \* 勤務情報: attendance
      <<<<"u5F53", "u6708", "u6B04">>, "u5F53u6708">>,  \* 当月欄: 当月
      <<<<"u5E74", "u9593", "u7D2F", "u8A08", "u6B04">>, "u5E74u9593u7D2Fu8A08">>,  \* 年間累計欄: 年間累計
      <<<<"uFF7C", "uFF77", "uFF6D", "uFF73", "uFF7A", "uFF73", "uFF93", "uFF78">>, "payment">>,  \* ｼｷｭｳｺｳﾓｸ: payment
      <<<<"uFF7A", "uFF73", "uFF7C", "uFF9E", "uFF6E", "uFF73", "uFF7A", "uFF73", "uFF93", "uFF78">>, "deduction">>,  \* ｺｳｼﾞｮｳｺｳﾓｸ: deduction
      <<<<"uFF7C", "uFF6D", "uFF73", "uFF77", "uFF9E", "uFF6E", "uFF73", "uFF7A", "uFF73", "uFF93", "uFF78">>, "attendance">>  \* ｼｭｳｷﾞｮｳｺｳﾓｸ: attendance
    >>

\* KNOWN_METADATA_LABELS (payslip.py 169-181)
KNOWN_METADATA_LABELS ==
    <<
      <<"u793E", "u54E1", "u756A", "u53F7">>,  \* 社員番号
      <<"u6C0F", "u540D">>,  \* 氏名
      <<"u8CC7", "u683C">>,  \* 資格
      <<"u6240", "u5C5E">>,  \* 所属
      <<"u5F79", "u8077">>,  \* 役職
      <<"u4E8B", "u696D", "u6240", "u540D">>,  \* 事業所名
      <<"u90E8", "u9580", "u540D">>,  \* 部門名
      <<"u90E8", "u7F72">>,  \* 部署
      <<"u652F", "u5E97", "u540D">>,  \* 支店名
      <<"u4F4F", "u6240">>,  \* 住所
      <<"u96FB", "u8A71", "u756A", "u53F7">>  \* 電話番号
    >>

(***************************************************************************)
(* str operations and the character classes of the regular expressions     *)
(***************************************************************************)
\* \d
Digit == {"0", "1", "2", "3", "4", "5", "6", "7", "8", "9"}

\* \s, and the characters str.strip() removes
Space == {" ", "u3000"}

\* [：:]
Colon == {"uFF1A", ":"}

\* [\+\-−△▲] (amount_only, amount_first_pattern)
SignPlus == {"+", "-", "u2212", "u25B3", "u25B2"}

\* [\-−△▲] (parse_token_pairs, combined tokens)
SignMinus == {"-", "u2212", "u25B3", "u25B2"}

None == "None"

AllIn(s, cls) == \A i \in DOMAIN s : s[i] \in cls

NoneIn(s, cls) == \A i \in DOMAIN s : s[i] \notin cls

\* s[a:] for a 1-based first index a
From(s, a) == SubSeq(s, a, Len(s))

\* s[:b] for a 1-based last index b
Upto(s, b) == SubSeq(s, 1, b)

startswith(s, p) == Len(p) <= Len(s) /\ Upto(s, Len(p)) = p

endswith(s, p) == Len(p) <= Len(s) /\ From(s, Len(s) - Len(p) + 1) = p

\* p in s
contains(s, p) == \E a \in 1..(Len(s) - Len(p) + 1) : SubSeq(s, a, a + Len(p) - 1) = p

\* any(p in s for p in ps), re.search of an alternation of literals
containsAny(s, ps) == \E k \in DOMAIN ps : contains(s, ps[k])

\* re.search of an alternation of literals anchored with $
endswithAny(s, ps) == \E k \in DOMAIN ps : endswith(s, ps[k])

\* x in list
inList(x, l) == \E k \in DOMAIN l : l[k] = x

\* number of leading characters of s that are in cls
RECURSIVE LeadIn(_, _)
LeadIn(s, cls) ==
    IF s # <<>> /\ Head(s) \in cls THEN 1 + LeadIn(Tail(s), cls) ELSE 0

\* number of trailing characters of s that are in cls
RECURSIVE TrailIn(_, _)
TrailIn(s, cls) ==
    IF s # <<>> /\ s[Len(s)] \in cls THEN 1 + TrailIn(Upto(s, Len(s) - 1), cls) ELSE 0

\* number of leading characters of s that are not in cls
RECURSIVE LeadNotIn(_, _)
LeadNotIn(s, cls) ==
    IF s # <<>> /\ Head(s) \notin cls THEN 1 + LeadNotIn(Tail(s), cls) ELSE 0

\* number of trailing characters of s that are not in cls
RECURSIVE TrailNotIn(_, _)
TrailNotIn(s, cls) ==
    IF s # <<>> /\ s[Len(s)] \notin cls THEN 1 + TrailNotIn(Upto(s, Len(s) - 1), cls) ELSE 0

lstrip(s) == From(s, LeadIn(s, Space) + 1)

rstripIn(s, cls) == Upto(s, Len(s) - TrailIn(s, cls))

\* str.strip()
strip(s) == rstripIn(lstrip(s), Space)

\* re.sub(r"\d+$", "", s)
strip_index(s) == rstripIn(s, Digit)

\* line.count(c)
count(s, c) == Cardinality({i \in DOMAIN s : s[i] = c})

\* sum(ch.isdigit() for ch in line)
n_digits(s) == Cardinality({i \in DOMAIN s : s[i] \in Digit})

\* [t for t in re.split(r"\s+", line) if t]
RECURSIVE split_tokens(_)
split_tokens(s) ==
    LET t == lstrip(s)
        n == LeadNotIn(t, Space)
    IN  IF t = <<>> THEN <<>> ELSE <<Upto(t, n)>> \o split_tokens(From(t, n + 1))

\* the replacement of one character by a table in which ￥ gives ¥, itself a key
translate_char_chained(c) ==
    IF c = "uFFE5" THEN <<"u00A5">>
    ELSE IF \E k \in DOMAIN _TRANS_TABLE : _TRANS_TABLE[k][1] = c
    THEN _TRANS_TABLE[CHOOSE k \in DOMAIN _TRANS_TABLE : _TRANS_TABLE[k][1] = c][2]
    ELSE <<c>>

\* the replacement of one character by str.translate(_TRANS_TABLE)
translate_char(c) ==
    IF \E k \in DOMAIN _TRANS_TABLE : _TRANS_TABLE[k][1] = c
    THEN _TRANS_TABLE[CHOOSE k \in DOMAIN _TRANS_TABLE : _TRANS_TABLE[k][1] = c][2]
    ELSE <<c>>

\* s.translate(_TRANS_TABLE)
RECURSIVE translate(_)
translate(s) ==
    IF s = <<>> THEN <<>> ELSE translate_char(Head(s)) \o translate(Tail(s))

\* the value of one decimal digit
digit_value(c) ==
    CASE c = "0" -> 0 [] c = "1" -> 1 [] c = "2" -> 2 [] c = "3" -> 3 [] c = "4" -> 4
      [] c = "5" -> 5 [] c = "6" -> 6 [] c = "7" -> 7 [] c = "8" -> 8 [] c = "9" -> 9

\* int(s) of a string of decimal digits
RECURSIVE digits_value(_)
digits_value(s) ==
    IF s = <<>> THEN 0
    ELSE 10 * digits_value(Upto(s, Len(s) - 1)) + digit_value(s[Len(s)])

Abs(n) == IF n < 0 THEN -n ELSE n

\* the least and the greatest element of a non-empty set of integers
Min(S) == CHOOSE x \in S : \A y \in S : x <= y

Max(S) == CHOOSE x \in S : \A y \in S : y <= x

(***************************************************************************)
(* The amount resolver and the line patterns of _parse_text                *)
(***************************************************************************)
\* (日|人|時間|回数?|週), the unit alternatives of the line patterns
PatternUnits ==
    {<<"u65E5">>, <<"u4EBA">>, <<"u6642", "u9593">>, <<"u56DE">>, <<"u56DE", "u6570">>, <<"u9031">>}

\* [：:\s]
Sep == Colon \cup Space

\* [\d,]
DigitComma == Digit \cup {","}

\* whether int(s) succeeds: optional blanks around an optional sign and digits
int_ok(s) ==
    LET unsigned(t) == IF t # <<>> /\ Head(t) \in {"+", "-"} THEN Tail(t) ELSE t
        digits(u)   == u # <<>> /\ AllIn(u, Digit)
    IN  digits(unsigned(strip(s)))

\* int(s) where it succeeds
int_value(s) ==
    LET value(t) ==
            IF Head(t) = "-" THEN -digits_value(Tail(t))
            ELSE IF Head(t) = "+" THEN digits_value(Tail(t))
            ELSE digits_value(t)
    IN  value(strip(s))

\* re.sub(rf"({'|'.join(QUANTITY_UNITS)})$", "", s): the leftmost match is the
\* longest unit that ends s
strip_unit(s) ==
    LET cut(lens) == IF lens = {} THEN s ELSE Upto(s, Len(s) - Max(lens))
    IN  cut({Len(QUANTITY_UNITS[k]) : k \in {j \in DOMAIN QUANTITY_UNITS : endswith(s, QUANTITY_UNITS[j])}})

\* s.replace(",", "").replace("−", "-").replace("△", "-").replace("▲", "-")
replace_signs(s) ==
    LET t == SelectSeq(s, LAMBDA c : c # ",")
    IN  [i \in DOMAIN t |-> IF t[i] \in {"u2212", "u25B3", "u25B2"} THEN "-" ELSE t[i]]

\* _clean_amount: [ok |-> TRUE, val |-> the amount], or ok = FALSE where it
\* raises ValueError (more than 9 digits, or int() fails)
_clean_amount(s0) ==
    LET convert(negative, s3) ==
            IF Len(SelectSeq(s3, LAMBDA c : c \in Digit)) > MaxDigits \/ ~int_ok(s3)
            THEN [ok |-> FALSE, val |-> 0]
            ELSE [ok |-> TRUE, val |-> IF negative THEN -int_value(s3) ELSE int_value(s3)]
        unwrap(s1, negative) ==
            convert(negative,
                    replace_signs(strip_unit(IF negative THEN SubSeq(s1, 2, Len(s1) - 1) ELSE s1)))
        translated(s1) == unwrap(s1, startswith(s1, <<"(">>) /\ endswith(s1, <<")">>))
    IN  translated(translate(s0))

\* amount_only = ^[\+\-−△▲]?\(?\d[\d,]*\)?$
amount_only(s) ==
    LET a == IF s # <<>> /\ Head(s) \in SignPlus THEN Tail(s) ELSE s
        b == IF a # <<>> /\ Head(a) = "(" THEN Tail(a) ELSE a
        c == IF b # <<>> /\ b[Len(b)] = ")" THEN Upto(b, Len(b) - 1) ELSE b
    IN  c # <<>> /\ Head(c) \in Digit /\ AllIn(c, DigitComma)

\* re.fullmatch(r"[\-−△▲]?\d[\d,]*", s)
signed_number(s) ==
    LET a == IF s # <<>> /\ Head(s) \in SignMinus THEN Tail(s) ELSE s
    IN  a # <<>> /\ Head(a) \in Digit /\ AllIn(a, DigitComma)

\* value_with_unit = ^(\d+)\s*(日|人|時間|回数?|週)$ : [m, value]
value_with_unit(s) ==
    LET d    == LeadIn(s, Digit)
        rest == lstrip(From(s, d + 1))
    IN  IF d >= 1 /\ rest \in PatternUnits
        THEN [m |-> TRUE, value |-> Upto(s, d)]
        ELSE [m |-> FALSE, value |-> <<>>]

\* item_attendance        = ^([^\d]+?)[：:\s]+(\d+)(日|人|時間|回数?|週)$  (sep = TRUE)
\* item_attendance_inline = ^([^\d]+?)(\d+)(日|人|時間|回数?|週)$          (sep = FALSE)
\* : [m, name, value].  The unit is the non-digit tail, the value the digits
\* before it, and the rest, free of digits, is the name (with its separators,
\* of which the lazy name keeps none but needs one character).
attendance_match(s, sep) ==
    LET u  == TrailNotIn(s, Digit)
        s1 == Upto(s, Len(s) - u)
        d  == TrailIn(s1, Digit)
        p  == Upto(s1, Len(s1) - d)
        t  == TrailIn(p, Sep)
        k  == IF Len(p) - t >= 1 THEN Len(p) - t ELSE 1
        ok == /\ From(s, Len(s) - u + 1) \in PatternUnits
              /\ d >= 1
              /\ p # <<>>
              /\ NoneIn(p, Digit)
              /\ (sep => t >= 1 /\ Len(p) >= 2)
    IN  IF ok
        THEN [m |-> TRUE, name |-> IF sep THEN Upto(p, k) ELSE p, value |-> From(s1, Len(s1) - d + 1)]
        ELSE [m |-> FALSE, name |-> <<>>, value |-> <<>>]

item_attendance(s) == attendance_match(s, TRUE)

item_attendance_inline(s) == attendance_match(s, FALSE)

\* item_amount = ^([^\d]+?)[：:\s]+([^\s]+)$ : [m, name, value].  The name is
\* the shortest digit-free prefix, then the longest run of separators, after
\* which the rest holds no blank.
item_amount(s) ==
    LET n    == Len(s)
        gmin == n - TrailNotIn(s, Space) + 1
        fits(k, g) == g >= k + 2 /\ g >= gmin /\ g <= n /\ AllIn(SubSeq(s, k + 1, g - 1), Sep)
        value_at(k0) == Max({g \in (k0 + 2)..n : fits(k0, g)})
        match(ks) ==
            IF ks = {} THEN [m |-> FALSE, name |-> <<>>, value |-> <<>>]
            ELSE [m |-> TRUE, name |-> Upto(s, Min(ks)), value |-> From(s, value_at(Min(ks)))]
    IN  match({k \in 1..LeadNotIn(s, Digit) : \E g \in (k + 2)..n : fits(k, g)})

\* amount_first_pattern =
\*   ^[¥￥]?((?:\([\+\-−△▲]?\d[\d,]*\))|[\+\-−△▲]?\d[\d,]*)\s+(.+)$ : [m, amount, name]
amount_first_pattern(s) ==
    LET a     == IF s # <<>> /\ Head(s) \in {"u00A5", "uFFE5"} THEN Tail(s) ELSE s
        paren == a # <<>> /\ Head(a) = "("
        b     == IF paren THEN Tail(a) ELSE a
        sg    == IF b # <<>> /\ Head(b) \in SignPlus THEN 1 ELSE 0
        c     == From(b, sg + 1)
        run   == LeadIn(c, DigitComma)
        close == IF paren THEN 1 ELSE 0
        len   == close + sg + run + close
        rest  == From(a, len + 1)
        ns    == LeadIn(rest, Space)
        ok    == /\ c # <<>> /\ Head(c) \in Digit
                 /\ (paren => Len(c) > run /\ c[run + 1] = ")")
                 /\ ns >= 1
                 /\ Len(rest) > ns
    IN  IF ok THEN [m |-> TRUE, amount |-> Upto(a, len), name |-> From(rest, ns + 1)]
        ELSE [m |-> FALSE, amount |-> <<>>, name |-> <<>>]

\* re.match(r"^([^\d]+?)([\-−△▲]?\d[\d,]*)$", token) : [m, name, val]
name_digits(s) ==
    LET p    == LeadNotIn(s, Digit) + 1
        sg   == p >= 3 /\ s[p - 1] \in SignMinus
        ok   == p >= 2 /\ p <= Len(s) /\ AllIn(From(s, p), DigitComma)
    IN  IF ok
        THEN [m |-> TRUE, name |-> Upto(s, IF sg THEN p - 2 ELSE p - 1),
              val |-> From(s, IF sg THEN p - 1 ELSE p)]
        ELSE [m |-> FALSE, name |-> <<>>, val |-> <<>>]

(***************************************************************************)
(* _parse_text: the parser state and the handling of one line.  The state  *)
(* st is the record of the function's locals; st.raised says that a        *)
(* ValueError left the function.                                           *)
(***************************************************************************)
TOTAL_KEYS == GROSS_KEYS \cup NET_KEYS \cup DEDUCTION_KEYS

\* reset_sections = ("支給合計", "控除合計", "差引支給額")
reset_sections ==
    {
      <<"u652F", "u7D66", "u5408", "u8A08">>,
      <<"u63A7", "u9664", "u5408", "u8A08">>,
      <<"u5DEE", "u5F15", "u652F", "u7D66", "u984D">>
    }

S_shikyu_gokei == <<"u652F", "u7D66", "u5408", "u8A08">>  \* 支給合計

S_kojo_gokei == <<"u63A7", "u9664", "u5408", "u8A08">>  \* 控除合計

PayslipItem(name, amount, category, section) ==
    [name |-> name, amount |-> amount, category |-> category, section |-> section]

\* the locals of _parse_text before the first line
parser_init ==
    [gross |-> <<>>, net |-> <<>>, deduction |-> <<>>, items |-> <<>>, attendance |-> <<>>,
     current_section |-> None, until_marker |-> <<>>, pending_section |-> None,
     pending_names |-> <<>>, raised |-> FALSE]

\* d[k] = v on a dict kept as the sequence of its <<key, value>> pairs
dict_set(d, k, v) ==
    IF \E i \in DOMAIN d : d[i][1] = k
    THEN [i \in DOMAIN d |-> IF d[i][1] = k THEN <<k, v>> ELSE d[i]]
    ELSE Append(d, <<k, v>>)

\* d.get(k), None when absent, for a table of <<key, str>> pairs
dict_get(d, k) ==
    IF \E i \in DOMAIN d : d[i][1] = k
    THEN d[CHOOSE i \in DOMAIN d : d[i][1] = k][2]
    ELSE None

\* "payment" if section == "payment" else "deduction" if section == "deduction" else None
section_category(section) ==
    IF section = "payment" THEN "payment"
    ELSE IF section = "deduction" THEN "deduction" ELSE None

\* if pending_section: current_section = pending_section; pending_section = None
apply_pending_section(st) ==
    IF st.pending_section # None
    THEN [st EXCEPT !.current_section = st.pending_section, !.pending_section = None]
    ELSE st

\* name not in KNOWN_METADATA_LABELS and name not in KNOWN_SECTION_LABELS, and name
queueable(name) ==
    name # <<>> /\ ~inList(name, KNOWN_METADATA_LABELS) /\ ~inList(name, KNOWN_SECTION_LABELS)

\* section == "attendance" or ATTENDANCE_PATTERN.search(name) or name in QUANTITY_UNITS
attendance_context(section, name) ==
    section = "attendance" \/ endswithAny(name, ATTENDANCE_PATTERN) \/ inList(name, QUANTITY_UNITS)

\* the TOTAL_KEYS branch: the totals named by the key are assigned
set_total_keys(st, name, amount) ==
    [st EXCEPT !.gross     = IF name \in GROSS_KEYS THEN <<amount>> ELSE @,
               !.net       = IF name \in NET_KEYS THEN <<amount>> ELSE @,
               !.deduction = IF name \in DEDUCTION_KEYS THEN <<amount>> ELSE @]

\* re.fullmatch(r"口座振込額[:：]?", label)
is_koza_furikomi(label) ==
    LET k == <<"u53E3", "u5EA7", "u632F", "u8FBC", "u984D">>
    IN  label = k \/ (Len(label) = Len(k) + 1 /\ Upto(label, Len(k)) = k /\ label[Len(label)] \in Colon)

\* _handle_total_line: [consumed, st]
_handle_total_line(st, label, amt) ==
    IF containsAny(label, _TOTAL_EXCLUDE) THEN [consumed |-> TRUE, st |-> st]
    ELSE IF contains(label, S_shikyu_gokei) \/ contains(label, <<"u7DCF", "u652F", "u7D66">>)
    THEN [consumed |-> TRUE, st |-> IF st.gross = <<>> THEN [st EXCEPT !.gross = <<amt>>] ELSE st]
    ELSE IF contains(label, S_kojo_gokei) /\ ~contains(label, <<"u5DEE", "u5F15">>)
    THEN [consumed |-> TRUE,
          st |-> IF st.deduction = <<>> THEN [st EXCEPT !.deduction = <<amt>>] ELSE st]
    ELSE IF contains(label, <<"u5DEE", "u5F15", "u652F", "u7D66", "u984D">>)
            \/ contains(label, <<"u624B", "u53D6", "u308A">>)
    THEN [consumed |-> TRUE, st |-> IF st.net = <<>> THEN [st EXCEPT !.net = <<amt>>] ELSE st]
    ELSE IF is_koza_furikomi(label)
    THEN [consumed |-> TRUE, st |-> IF st.net = <<>> THEN [st EXCEPT !.net = <<amt>>] ELSE st]
    ELSE [consumed |-> FALSE, st |-> st]

\* a routing that keeps one item per name: the pair replaces the item that
\* already has its name
route_pair_keyed(st, name, amount, section, clear_att, small_guard) ==
    LET other_name(it) == it.name # name
        other(h) ==
            IF h.consumed THEN h.st
            ELSE IF section # "attendance" /\ Abs(amount) < SmallAmount /\ small_guard THEN st
            ELSE [st EXCEPT !.items =
                     Append(SelectSeq(@, other_name),
                            PayslipItem(name, amount, section_category(section), section))]
    IN  IF attendance_context(section, name)
        THEN [st EXCEPT !.attendance = dict_set(@, name, amount),
                        !.pending_names = IF clear_att THEN <<>> ELSE @]
        ELSE IF name \in TOTAL_KEYS THEN set_total_keys(st, name, amount)
        ELSE other(_handle_total_line(st, name, amount))

\* The routing of a resolved name/amount pair, written out in _parse_text at
\* 535-566 (name + amount line), 599-633 (pending name + bare amount), 658-694
\* and 703-733 (amount first) and 805-840 (fallback tokens): attendance, a
\* TOTAL_KEYS key, a strict total label, a small amount, or an item.
\* clear_att: the copy clears pending_names in its attendance branch;
\* small_guard: the extra conjunct of the small-amount test (703-733 has
\* "and not pending_names").
route_pair(st, name, amount, section, clear_att, small_guard) ==
    LET other(h) ==
            IF h.consumed THEN h.st
            ELSE IF section # "attendance" /\ Abs(amount) < SmallAmount /\ small_guard THEN st
            ELSE [st EXCEPT !.items =
                     Append(@, PayslipItem(name, amount, section_category(section), section))]
    IN  IF attendance_context(section, name)
        THEN [st EXCEPT !.attendance = dict_set(@, name, amount),
                        !.pending_names = IF clear_att THEN <<>> ELSE @]
        ELSE IF name \in TOTAL_KEYS THEN set_total_keys(st, name, amount)
        ELSE other(_handle_total_line(st, name, amount))

\* an iteration of parse_token_pairs that sets handled and leaves the index
\* where it was
token_pair_step_stuck(st0, tokens, i, handled) == [st |-> st0, i |-> i, handled |-> TRUE]

\* one iteration of the while loop of parse_token_pairs at 0-based index
\* i - 1: [st, i, handled] after it
token_pair_step(st0, tokens, i, handled) ==
    LET more == i <= Len(tokens) - 2
        out(st, j, h) == [st |-> st, i |-> j, handled |-> h]
        category(st, name) ==
            LET cat == dict_get(CATEGORY_MAP, name)
            IN  IF cat # None THEN cat ELSE section_category(st.current_section)
        \* the token that holds a name and its digits
        combined(st, m_comb, digits, amt, cleaned) ==
            IF ~m_comb.m THEN out(st, i + 1, handled)
            ELSE IF contains(m_comb.val, <<",">>) \/ Len(digits) >= 2
            THEN IF ~amt.ok THEN out(st, i + 1, handled)
                 ELSE out([st EXCEPT !.items =
                              Append(@, PayslipItem(m_comb.name, amt.val, category(st, m_comb.name),
                                                    st.current_section))],
                          i + 1, TRUE)
            ELSE IF queueable(cleaned)
            THEN out([st EXCEPT !.pending_names = Append(@, cleaned)], i + 1, TRUE)
            ELSE out(st, i + 1, handled)
        on_combined(st, m_comb) ==
            combined(st, m_comb, SelectSeq(m_comb.val, LAMBDA c : c \in Digit),
                     _clean_amount(m_comb.val), strip_index(m_comb.name))
        step(st, name, next_tok, isnum, amt, clean_name) ==
            IF dict_get(SECTION_MAP, name) # None
            THEN out([st EXCEPT !.pending_section = dict_get(SECTION_MAP, name)], i + 1, handled)
            ELSE IF inList(name, QUANTITY_UNITS) /\ more /\ isnum
            THEN out([st EXCEPT !.attendance = dict_set(@, tokens[i + 2], digits_value(next_tok))],
                     i + 3, TRUE)
            ELSE IF more /\ isnum /\ inList(tokens[i + 2], QUANTITY_UNITS)
            THEN out([st EXCEPT !.attendance = dict_set(@, name, digits_value(next_tok))],
                     i + 3, TRUE)
            ELSE IF signed_number(next_tok)
            THEN IF ~amt.ok THEN out(st, i + 2, handled)
                 ELSE IF name \in TOTAL_KEYS THEN out(set_total_keys(st, name, amt.val), i + 2, TRUE)
                 ELSE IF st.current_section # "attendance" /\ Abs(amt.val) < SmallAmount
                 THEN out(st, i + 2, TRUE)
                 ELSE out([st EXCEPT !.items =
                              Append(@, PayslipItem(clean_name, amt.val, category(st, clean_name),
                                                    st.current_section))],
                          i + 2, TRUE)
            ELSE on_combined(st, name_digits(name))
        named(st, name, next_tok) ==
            step(st, name, next_tok, next_tok # <<>> /\ AllIn(next_tok, Digit),
                 _clean_amount(next_tok), strip_index(name))
    IN  named(apply_pending_section(st0), rstripIn(tokens[i], Colon), tokens[i + 1])

\* while i < len(tokens) - 1, from [st, i, handled]
RECURSIVE token_pair_loop(_, _)
token_pair_loop(r, tokens) ==
    IF r.i <= Len(tokens) - 1
    THEN token_pair_loop(token_pair_step(r.st, tokens, r.i, r.handled), tokens)
    ELSE r

\* parse_token_pairs(tokens): [st, handled]
parse_token_pairs(st, tokens) ==
    LET result(r) == [st |-> r.st, handled |-> r.handled]
    IN  result(token_pair_loop([st |-> st, i |-> 1, handled |-> FALSE], tokens))

\* st with pending_names.clear()
clear_pending(st) == [st EXCEPT !.pending_names = <<>>]

\* st when a ValueError leaves _parse_text
raise(st) == [st EXCEPT !.raised = TRUE]

\* one iteration of the while loop of the token fallback at 0-based index
\* r.i - 1, from and to [st, i, name_queue, handled]; pending_names is empty
\* while the loop runs
fallback_step(r, tokens) ==
    LET i == r.i
        q == r.name_queue
        out(st, j, queue, h) == [st |-> st, i |-> j, name_queue |-> queue, handled |-> h]
        \* the token that holds a name and its digits, or a name
        named(st, token, m_na, digits, amt, cleaned) ==
            IF m_na.m /\ (contains(m_na.val, <<",">>) \/ Len(digits) >= 2) /\ queueable(m_na.name)
            THEN IF ~amt.ok THEN out(st, i + 1, q, r.handled)
                 ELSE out([st EXCEPT !.items =
                              Append(@, PayslipItem(m_na.name, amt.val,
                                                    section_category(st.current_section),
                                                    st.current_section))],
                          i + 1, q, TRUE)
            ELSE IF queueable(cleaned) THEN out(st, i + 1, Append(q, cleaned), TRUE)
            ELSE out(st, i + 1, q, r.handled)
        on_named(st, token, m_na) ==
            named(st, token, m_na, SelectSeq(m_na.val, LAMBDA c : c \in Digit),
                  _clean_amount(m_na.val), strip_index(token))
        step(st, token, m_val, amt) ==
            IF m_val.m
            THEN IF q # <<>>
                 THEN out([st EXCEPT !.attendance = dict_set(@, Head(q), digits_value(m_val.value))],
                          i + 1, <<>>, TRUE)
                 ELSE out(st, i + 1, q, r.handled)
            ELSE IF amount_only(token) /\ i + 1 <= Len(tokens)
                    /\ inList(tokens[i + 1], QUANTITY_UNITS) /\ q # <<>>
            THEN IF ~amt.ok THEN out(raise(st), i + 1, q, r.handled)
                 ELSE out([st EXCEPT !.attendance = dict_set(@, Head(q), amt.val)], i + 2, <<>>, TRUE)
            ELSE IF amount_only(token)
            THEN IF q # <<>>
                 THEN IF ~amt.ok THEN out(st, i + 1, Tail(q), r.handled)
                      ELSE out(route_pair(st, Head(q), amt.val, st.current_section, FALSE, TRUE),
                               i + 1, Tail(q), TRUE)
                 ELSE out(st, i + 1, q, r.handled)
            ELSE on_named(st, token, name_digits(token))
    IN  step(apply_pending_section(r.st), tokens[i], value_with_unit(tokens[i]),
             _clean_amount(tokens[i]))

\* while i < len(tokens), until a ValueError leaves the loop
RECURSIVE fallback_loop(_, _)
fallback_loop(r, tokens) ==
    IF r.i <= Len(tokens) /\ ~r.st.raised THEN fallback_loop(fallback_step(r, tokens), tokens) ELSE r

\* the token-based fallback (746-904)
fallback(st, line) ==
    LET finish(r) ==
            IF r.st.raised THEN r.st
            ELSE IF r.handled THEN [r.st EXCEPT !.pending_names = @ \o r.name_queue]
            ELSE clear_pending(r.st)
        tokenized(tokens, p) ==
            IF tokens = <<>> THEN clear_pending(st)
            ELSE IF p.handled THEN clear_pending(p.st)
            ELSE finish(fallback_loop([st |-> clear_pending(p.st), i |-> 1,
                                       name_queue |-> p.st.pending_names, handled |-> FALSE],
                                      tokens))
        split(tokens) == tokenized(tokens, parse_token_pairs(st, tokens))
    IN  split(split_tokens(line))

\* the name + amount line (515-568), for a match m of item_amount
on_item_amount(st0, line, m) ==
    LET matched(st, name, amt, pairs) ==
            IF name = <<>> \/ inList(name, KNOWN_METADATA_LABELS) THEN clear_pending(st)
            ELSE IF ~amt.ok THEN clear_pending(pairs.st)
            ELSE clear_pending(route_pair(st, name, amt.val, st.current_section, TRUE, TRUE))
    IN  matched(apply_pending_section(st0), strip_index(strip(m.name)), _clean_amount(m.value),
                parse_token_pairs(apply_pending_section(st0), split_tokens(line)))

\* the bare amount line were the newest queued name popped (pending_names.pop()):
\* the pairing that first-in first-out excludes
on_amount_only_newest(st0, line) ==
    LET last(q) == q[Len(q)]
        matched(amt, rest) ==
            IF st0.pending_names = <<S_shikyu_gokei>>
            THEN IF amt.ok THEN clear_pending([st0 EXCEPT !.gross = <<amt.val>>]) ELSE raise(st0)
            ELSE IF st0.pending_names = <<S_kojo_gokei>>
            THEN IF amt.ok THEN clear_pending([st0 EXCEPT !.deduction = <<amt.val>>])
                 ELSE raise(st0)
            ELSE IF st0.pending_names # <<>>
            THEN IF ~amt.ok THEN rest
                 ELSE route_pair(rest, last(st0.pending_names), amt.val, rest.current_section,
                                 TRUE, TRUE)
            ELSE st0
    IN  matched(_clean_amount(line),
                [apply_pending_section(st0) EXCEPT !.pending_names = Upto(@, Len(@) - 1)])

\* the bare amount line (580-642)
on_amount_only(st0, line) ==
    LET matched(amt, rest) ==
            IF st0.pending_names = <<S_shikyu_gokei>>
            THEN IF amt.ok THEN clear_pending([st0 EXCEPT !.gross = <<amt.val>>]) ELSE raise(st0)
            ELSE IF st0.pending_names = <<S_kojo_gokei>>
            THEN IF amt.ok THEN clear_pending([st0 EXCEPT !.deduction = <<amt.val>>])
                 ELSE raise(st0)
            ELSE IF st0.pending_names # <<>>
            THEN IF ~amt.ok THEN rest
                 ELSE route_pair(rest, Head(st0.pending_names), amt.val, rest.current_section,
                                 TRUE, TRUE)
            ELSE st0
    IN  matched(_clean_amount(line), [apply_pending_section(st0) EXCEPT !.pending_names = Tail(@)])

\* the amount-first line (644-734), for a match m of amount_first_pattern
on_amount_first(st0, m) ==
    LET queue(prev, name) ==
            IF name # <<>> /\ ~inList(name, KNOWN_METADATA_LABELS)
            THEN [prev EXCEPT !.pending_names = Append(@, name)]
            ELSE prev
        matched(st, amt, name) ==
            IF ~amt.ok THEN clear_pending(st)
            ELSE IF st.pending_names # <<>>
            THEN queue(route_pair([st EXCEPT !.pending_names = Tail(@)], Head(st.pending_names),
                                  amt.val, st.current_section, TRUE, TRUE),
                       name)
            ELSE IF name = <<>> \/ inList(name, KNOWN_METADATA_LABELS) THEN clear_pending(st)
            ELSE route_pair(st, name, amt.val, st.current_section, FALSE, st.pending_names = <<>>)
    IN  matched(apply_pending_section(st0), _clean_amount(m.amount), strip_index(strip(m.name)))

(***************************************************************************)
(* The blocks of the loop body, in the order of the source.  Each takes    *)
(* and gives [st, line, done]: the locals, the line as the blocks before   *)
(* left it, and whether one of them has ended the iteration (`continue`).  *)
(***************************************************************************)
\* `continue` with the locals st
continue(st) == [st |-> st, line |-> <<>>, done |-> TRUE]

\* re.sub(rf"^{re.escape(hdr)}[：:]*\s*", "", line) for a line that starts with hdr
strip_header(line, hdr) ==
    LET a == From(line, Len(hdr) + 1)
    IN  lstrip(From(a, LeadIn(a, Colon) + 1))

\* a SECTION_BEGIN header opens a section until its marker (429-439)
on_section_begin(r) ==
    LET opened(k, remainder) ==
            [st |-> [r.st EXCEPT !.current_section = SECTION_BEGIN[k][2],
                                 !.until_marker = SECTION_BEGIN[k][3]],
             line |-> remainder, done |-> remainder = <<>>]
        found(ks) ==
            IF ks = {} THEN r
            ELSE opened(Min(ks), strip_header(r.line, SECTION_BEGIN[Min(ks)][1]))
    IN  IF r.done THEN r
        ELSE found({k \in DOMAIN SECTION_BEGIN : startswith(r.line, SECTION_BEGIN[k][1])})

\* the active closing marker ends the section (440-447)
on_until_marker(r) ==
    LET closed(remainder) ==
            [st |-> [r.st EXCEPT !.current_section = None, !.until_marker = <<>>],
             line |-> remainder, done |-> remainder = <<>>]
    IN  IF r.done \/ r.st.until_marker = <<>> \/ ~startswith(r.line, r.st.until_marker) THEN r
        ELSE closed(strip_header(r.line, r.st.until_marker))

\* lines 449-456 without the SKIP_PAT test: a line with a noise marker goes on to
\* the later blocks
on_reset_only(r) ==
    IF r.done THEN r
    ELSE IF r.line \in reset_sections
    THEN continue([r.st EXCEPT !.current_section = None, !.pending_section = None,
                               !.pending_names = <<>>])
    ELSE r

\* lines 485-487 without pending_names.clear(): the queue outlives a metadata line
on_metadata_keeping(r) ==
    IF r.done THEN r
    ELSE IF \E k \in DOMAIN KNOWN_METADATA_LABELS : startswith(r.line, KNOWN_METADATA_LABELS[k])
    THEN continue(r.st)
    ELSE r

\* SKIP_PAT and reset_sections (449-456)
on_skip_reset(r) ==
    IF r.done THEN r
    ELSE IF containsAny(r.line, SKIP_PAT) THEN continue(r.st)
    ELSE IF r.line \in reset_sections
    THEN continue([r.st EXCEPT !.current_section = None, !.pending_section = None,
                               !.pending_names = <<>>])
    ELSE r

\* a SECTION_MAP header sets the pending section (458-472)
on_section_map(r) ==
    LET after(k) == From(r.line, Len(SECTION_MAP[k][1]) + 1)
        group(a) == IF a # <<>> /\ Head(a) \in Colon THEN lstrip(Tail(a)) ELSE lstrip(a)
        header(k, remainder) ==
            [st |-> [r.st EXCEPT !.pending_section = IF @ = None THEN SECTION_MAP[k][2] ELSE @,
                                 !.pending_names = <<>>],
             line |-> remainder, done |-> remainder = <<>>]
        found(ks) == IF ks = {} THEN r ELSE header(Min(ks), strip(group(after(Min(ks)))))
    IN  IF r.done THEN r
        ELSE found({k \in DOMAIN SECTION_MAP : startswith(r.line, SECTION_MAP[k][1])})

\* re.fullmatch(rf"{re.escape(lbl)}[：:]*\d*", line) for some lbl of KNOWN_SECTION_LABELS
section_label_line(line) ==
    \E k \in DOMAIN KNOWN_SECTION_LABELS :
        LET lbl  == KNOWN_SECTION_LABELS[k]
            rest == From(line, Len(lbl) + 1)
        IN  startswith(line, lbl) /\ AllIn(From(rest, LeadIn(rest, Colon) + 1), Digit)

\* a known label alone on its line is queued as a name (474-483)
on_section_label(r) ==
    LET queued(cleaned) ==
            IF cleaned # <<>> THEN continue([r.st EXCEPT !.pending_names = Append(@, cleaned)])
            ELSE continue(clear_pending(r.st))
    IN  IF r.done \/ ~section_label_line(r.line) THEN r
        ELSE queued(rstripIn(strip(r.line), Digit \cup Colon))

\* a metadata line is dropped (485-487)
on_metadata(r) ==
    IF r.done THEN r
    ELSE IF \E k \in DOMAIN KNOWN_METADATA_LABELS : startswith(r.line, KNOWN_METADATA_LABELS[k])
    THEN continue(clear_pending(r.st))
    ELSE r

\* name and value with a unit (489-507)
on_attendance(r) ==
    LET matched(att) ==
            IF att.m
            THEN continue(clear_pending([apply_pending_section(r.st) EXCEPT
                              !.attendance = dict_set(@, strip(att.name), digits_value(att.value))]))
            ELSE r
        first(m_att) == matched(IF m_att.m THEN m_att ELSE item_attendance_inline(r.line))
    IN  IF r.done THEN r ELSE first(item_attendance(r.line))

\* several pairs on one line (509-513)
on_multi_pair(r) ==
    LET paired(p) ==
            [st |-> IF p.handled THEN clear_pending(p.st) ELSE p.st, line |-> r.line,
             done |-> p.handled]
    IN  IF r.done \/ ~(count(r.line, " ") >= 3 /\ n_digits(r.line) >= 2) THEN r
        ELSE paired(parse_token_pairs(r.st, split_tokens(r.line)))

\* name and amount (515-568)
on_name_amount(r) ==
    IF r.done \/ ~item_amount(r.line).m THEN r
    ELSE continue(on_item_amount(r.st, r.line, item_amount(r.line)))

\* a value with a unit after a queued name (570-578)
on_value_with_unit(r) ==
    LET matched(m_unit) ==
            IF m_unit.m /\ r.st.pending_names # <<>>
            THEN continue(clear_pending([apply_pending_section(r.st) EXCEPT
                              !.attendance = dict_set(@, Head(r.st.pending_names),
                                                      digits_value(m_unit.value))]))
            ELSE r
    IN  IF r.done THEN r ELSE matched(value_with_unit(r.line))

\* a bare amount (580-642)
on_bare_amount(r) ==
    IF r.done \/ ~amount_only(r.line) THEN r ELSE continue(on_amount_only(r.st, r.line))

\* an amount before its name (644-734)
on_amount_name(r) ==
    IF r.done \/ ~amount_first_pattern(r.line).m THEN r
    ELSE continue(on_amount_first(r.st, amount_first_pattern(r.line)))

\* a line without digits is queued as a name (736-744)
on_name_only(r) ==
    LET queued(name) ==
            IF queueable(name) THEN continue([r.st EXCEPT !.pending_names = Append(@, name)])
            ELSE continue(r.st)
    IN  IF r.done \/ ~NoneIn(r.line, Digit) THEN r ELSE queued(strip_index(strip(r.line)))

\* any other line goes to the token-based fallback (746-904)
on_fallback(r) == IF r.done THEN r ELSE continue(fallback(r.st, r.line))

\* line = raw_line.strip().translate(_TRANS_TABLE); if not line: continue (424-427)
read_line(st, raw_line) ==
    LET stripped(line) == [st |-> st, line |-> line, done |-> line = <<>>]
    IN  stripped(translate(strip(raw_line)))

\* the body of `for raw_line in text.splitlines()` (423-904): the locals after
\* the line
parse_line(st, raw_line) ==
    on_fallback(on_name_only(on_amount_name(on_bare_amount(on_value_with_unit(
    on_name_amount(on_multi_pair(on_attendance(on_metadata(on_section_label(
    on_section_map(on_skip_reset(on_until_marker(on_section_begin(
    read_line(st, raw_line))))))))))))))).st
(***************************************************************************)
(* The derivation steps after _parse_text                                  *)
(***************************************************************************)
\* sum(...) of a sequence of integers
RECURSIVE sum(_)
sum(s) == IF s = <<>> THEN 0 ELSE Head(s) + sum(Tail(s))

\* the amounts of a sequence of items
amounts(its) == [i \in DOMAIN its |-> its[i].amount]

\* the category _categorize_items gives one item, before the skip/attendance filter
initial_category(it) ==
    LET known == IF it.category # None THEN it.category ELSE dict_get(CATEGORY_MAP, it.name)
    IN  IF known # None THEN known
        ELSE IF it.amount < 0 THEN "deduction"
        ELSE IF it.section = "attendance" \/ endswithAny(it.name, ATTENDANCE_PATTERN) THEN "attendance"
        ELSE IF containsAny(it.name, _deduction_keywords) THEN "deduction"
        ELSE "payment"

\* the item _categorize_items appends for an item that is kept
categorized_item(it) ==
    LET finish(c2) ==
            PayslipItem(it.name, it.amount, c2,
                        IF it.section # None THEN it.section
                        ELSE IF c2 = "attendance" THEN "attendance"
                        ELSE IF c2 = "payment" THEN "payment"
                        ELSE IF c2 = "deduction" THEN "deduction" ELSE None)
        attend(c1) ==
            finish(IF c1 # "attendance"
                      /\ (it.section = "attendance" \/ endswithAny(it.name, ATTENDANCE_PATTERN))
                   THEN "attendance" ELSE c1)
        deduct(c0) ==
            attend(IF c0 = "payment" /\ containsAny(it.name, _deduction_keywords)
                   THEN "deduction" ELSE c0)
    IN  deduct(initial_category(it))

\* _categorize_items
RECURSIVE _categorize_items(_)
_categorize_items(its) ==
    IF its = <<>> THEN <<>>
    ELSE (IF initial_category(Head(its)) \in {"skip", "attendance"} THEN <<>>
          ELSE <<categorized_item(Head(its))>>) \o _categorize_items(Tail(its))

\* _normalize_items: [payments, deductions]
_normalize_items(its) ==
    [payments   |-> SelectSeq(its, LAMBDA it : ~(it.amount < 0 \/ it.category = "deduction")),
     deductions |-> SelectSeq(its, LAMBDA it : it.amount < 0 \/ it.category = "deduction")]

\* _warn_inconsistent: the warnings list ("W" is the one message)
_warn_inconsistent(gross_, deduction_, net_) ==
    IF gross_ # <<>> /\ deduction_ # <<>> /\ net_ # <<>> /\ gross_[1] - deduction_[1] # net_[1]
    THEN <<"W">> ELSE <<>>

\* the dict _parse_text returns
parse_result(st) ==
    [items |-> st.items, gross_amount |-> st.gross, net_amount |-> st.net,
     deduction_amount |-> st.deduction, attendance |-> st.attendance, warnings |-> <<>>]

\* _parse_file after `parsed = _parse_text(text)` (1049-1071)
_parse_file(p) ==
    LET warned(its, g, d, n) ==
            [p EXCEPT !.items = its, !.gross_amount = g, !.deduction_amount = d,
                      !.net_amount = n, !.warnings = _warn_inconsistent(g, d, n)]
        totalled(its, g, d) ==
            warned(its, g, d, IF p.net_amount = <<>> THEN <<g[1] - d[1]>> ELSE p.net_amount)
        normalized(its, pd) ==
            totalled(its,
                     IF p.gross_amount = <<>> THEN <<sum(amounts(pd.payments))>>
                     ELSE p.gross_amount,
                     IF p.deduction_amount = <<>> THEN <<sum(amounts(pd.deductions))>>
                     ELSE p.deduction_amount)
        categorized(its) == normalized(its, _normalize_items(its))
    IN  categorized(_categorize_items(p.items))

\* the payment entries and the deduction entries _recalc_totals finds (984-990)
recalc_payments(its) ==
    SelectSeq(its, LAMBDA it : it.category = "payment" \/ (it.category = None /\ it.amount >= 0))

recalc_deductions(its) ==
    SelectSeq(its, LAMBDA it : /\ ~(it.category = "payment" \/ (it.category = None /\ it.amount >= 0))
                               /\ (it.category = "deduction" \/ (it.category = None /\ it.amount < 0)))

\* _recalc_totals raises TypeError at its last statement (996): the dict has the
\* key of a total with the value None, .get returns None and None is subtracted
_recalc_totals_raises(p) ==
    \/ recalc_payments(p.items) = <<>> /\ p.gross_amount = <<>>
    \/ recalc_deductions(p.items) = <<>> /\ p.deduction_amount = <<>>

\* _recalc_totals where it returns: gross_amount and deduction_amount are set
\* when it reaches its last statement
_recalc_totals(p) ==
    LET cat(it) == IF it.category = None THEN "" ELSE it.category
        is_pay(it) == cat(it) = "payment" \/ (cat(it) = "" /\ it.amount >= 0)
        is_ded(it) == ~is_pay(it) /\ (cat(it) = "deduction" \/ (cat(it) = "" /\ it.amount < 0))
        assigned(g, d) ==
            [p EXCEPT !.gross_amount = g, !.deduction_amount = d, !.net_amount = <<g[1] - d[1]>>]
        summed(pay, ded) ==
            assigned(IF pay # <<>> THEN <<sum(amounts(pay))>> ELSE p.gross_amount,
                     IF ded # <<>> THEN <<sum([i \in DOMAIN ded |-> Abs(ded[i].amount)])>>
                     ELSE p.deduction_amount)
    IN  summed(SelectSeq(p.items, is_pay), SelectSeq(p.items, is_ded))
L_shikyu_komoku == <<"u652F", "u7D66", "u9805", "u76EE">>  \* '支給項目'

L_kojo_komoku == <<"u63A7", "u9664", "u9805", "u76EE">>  \* '控除項目'

L_kihonkyu_100 == <<"u57FA", "u672C", "u7D66", " ", "1", "0", "0">>  \* '基本給 100'

L_shikyu_gokei_300 == <<"u652F", "u7D66", "u5408", "u8A08", " ", "3", "0", "0">>  \* '支給合計 300'

L_shikyu_gokei_200 == <<"u652F", "u7D66", "u5408", "u8A08", " ", "2", "0", "0">>  \* '支給合計 200'

L_kojo_gokei_100 == <<"u63A7", "u9664", "u5408", "u8A08", " ", "1", "0", "0">>  \* '控除合計 100'

L_sashihiki_200 == <<"u5DEE", "u5F15", "u652F", "u7D66", "u984D", " ", "2", "0", "0">>  \* '差引支給額 200'

L_sashihiki_201 == <<"u5DEE", "u5F15", "u652F", "u7D66", "u984D", " ", "2", "0", "1">>  \* '差引支給額 201'

L_kihonkyu == <<"u57FA", "u672C", "u7D66">>  \* '基本給'

L_shikyu_gokei_1 == <<"u652F", "u7D66", "u5408", "u8A08", "1">>  \* '支給合計1'

L_ten_digits == <<"1", "2", "3", "4", "5", "6", "7", "8", "9", "0">>  \* '1234567890'

L_unclosed_unit == <<"1", "2", "3", ")", " ", "u65E5">>  \* '123) 日'

L_teate_05 == <<"u624B", "u5F53", "0", "5">>  \* '手当05'

L_teate_5 == <<"u624B", "u5F53", " ", "5">>  \* '手当 5'

L_50000 == <<"5", "0", "0", "0", "0">>  \* '50000'

L_paren_shotokuzei == <<"(", "2", ",", "4", "6", "0", ")", " ", "u6240", "u5F97", "u7A0E">>  \* '(2,460) 所得税'

L_sonota_5000 == <<"u305D", "u306E", "u4ED6", " ", "5", "0", "0", "0">>  \* 'その他 5000'

L_sonota == <<"u305D", "u306E", "u4ED6">>  \* 'その他'

L_5000 == <<"5", "0", "0", "0">>  \* '5000'

L_shain_bango == <<"u793E", "u54E1", "u756A", "u53F7", " ", "4", "0", "2", "0">>  \* '社員番号 4020'

L_kihonkyu_shimei == <<"u57FA", "u672C", "u7D66", " ", "1", "0", "0", " ", "u6C0F", "u540D", " ", "2", "0", "0">>  \* '基本給 100 氏名 200'

L_shikyu_gokei_12000 == <<"u652F", "u7D66", "u5408", "u8A08", "1", "2", "0", "0", "0">>  \* '支給合計12000'

L_koza_furikomi_1_123 == <<"u53E3", "u5EA7", "u632F", "u8FBC", "u984D", "1", " ", "1", "2", "3">>  \* '口座振込額1 123'

L_blank == <<" ">>  \* ' '

L_shugyo_komoku == <<"u5C31", "u696D", "u9805", "u76EE">>  \* '就業項目'

L_togetsu_ran == <<"u5F53", "u6708", "u6B04">>  \* '当月欄'

L_kihonkyu_250000 == <<"u57FA", "u672C", "u7D66", " ", "2", "5", "0", "0", "0", "0">>  \* '基本給 250000'

L_shukkin_kekkin == <<"u51FA", "u52E4", " ", "2", "0", " ", "u6B20", "u52E4", " ", "3", "0">>  \* '出勤 20 欠勤 30'

L_tsukin_teate == <<"u901A", "u52E4", "u624B", "u5F53">>  \* '通勤手当'

L_250000 == <<"2", "5", "0", "0", "0", "0">>  \* '250000'

L_30000 == <<"3", "0", "0", "0", "0">>  \* '30000'

L_5 == <<"5">>  \* '5'

L_sokyu_ruikei == <<"u5F53", "u6708", "u7DCF", "u652F", "u7D66", "u984D", "u7D2F", "u8A08", " ", "5", "0", "0", "0", "0", "0">>  \* '当月総支給額累計 500000'

L_kazei_taishogaku == <<"u8AB2", "u7A0E", "u5BFE", "u8C61", "u984D", " ", "1", "0", "0", "0", "0", "0">>  \* '課税対象額 100000'

L_hyojun_hoshu == <<"u6A19", "u6E96", "u5831", "u916C", "u6708", "u984D", " ", "2", "0", "0", "0", "0", "0">>  \* '標準報酬月額 200000'

L_hokenryo_kaitei == <<"u4FDD", "u967A", "u6599", "u6539", "u5B9A", " ", "1", "0", "0", "0">>  \* '保険料改定 1000'

L_hikazei_tsukin == <<"u975E", "u8AB2", "u7A0E", "u901A", "u52E4", "u8CBB", " ", "1", "0", "0", "0", "0">>  \* '非課税通勤費 10000'

L_shozoku_hikazei == <<"u6240", "u5C5E", " ", "u975E", "u8AB2", "u7A0E">>  \* '所属 非課税'

L_shimei_yamada == <<"u6C0F", "u540D", " ", "u5C71", "u7530">>  \* '氏名 山田'

L_kazei_taishogaku_label == <<"u8AB2", "u7A0E", "u5BFE", "u8C61", "u984D">>  \* '課税対象額'

L_koza_furikomi_1 == <<"u53E3", "u5EA7", "u632F", "u8FBC", "u984D", "1">>  \* '口座振込額1'

L_135545_koho == <<"1", "3", "5", ",", "5", "4", "5", " ", "u96C7", "u4FDD", "u5BFE", "u8C61", "u984D">>  \* '135,545 雇保対象額'

L_218919 == <<"2", "1", "8", ",", "9", "1", "9">>  \* '218,919'

L_148405 == <<"1", "4", "8", ",", "4", "0", "5">>  \* '148,405'

L_kihonkyu_tsukin == <<"u57FA", "u672C", "u7D66", " ", "2", "5", "0", "0", "0", "0", " ", "u901A", "u52E4", "u624B", "u5F53", " ", "3", "0", "0", "0", "0">>  \* '基本給 250000 通勤手当 30000'

L_honkyu_tsukinhi == <<"u672C", "u7D66", " ", "2", "5", "0", "0", "0", "0", " ", "u901A", "u52E4", "u8CBB", "u88DC", "u52A9", " ", "1", "2", "8", "6", "0">>  \* '本給 250000 通勤費補助 12860'

L_shukkin_nissu_20 == <<"u51FA", "u52E4", "u65E5", "u6570", " ", "2", "0", "u65E5">>  \* '出勤日数 20日'

L_shukkin_nissu_overflow == <<"u51FA", "u52E4", "u65E5", "u6570", " ", "1", "2", "3", "4", "5", "6", "7", "8", "9", "0", "u65E5">>  \* '出勤日数 1234567890日'

L_kihonkyu_colon == <<"u57FA", "u672C", "u7D66", " ", "2", "5", "0", "0", "0", "0", " ", ":", " ", "3", "0", "0", "0", "0">>  \* '基本給 250000 : 30000'

L_tsukin_teate_1_jutaku == <<"u901A", "u52E4", "u624B", "u5F53", "1", " ", "u4F4F", "u5B85", "u624B", "u5F53">>  \* '通勤手当1 住宅手当'

L_sokyu_300 == <<"u7DCF", "u652F", "u7D66", "u984D", " ", "3", "0", "0">>  \* '総支給額 300'

L_kojogaku_100 == <<"u63A7", "u9664", "u984D", " ", "1", "0", "0">>  \* '控除額 100'

L_tedori_200 == <<"u624B", "u53D6", "u308A", " ", "2", "0", "0">>  \* '手取り 200'

\* the total lines, inside and outside the sections they close
TotalLines ==
    {L_shikyu_komoku, L_kojo_komoku, L_kihonkyu_100, L_shikyu_gokei_300, L_shikyu_gokei_200, L_kojo_gokei_100, L_sashihiki_200, L_sashihiki_201}

\* amounts the resolver rejects, small amounts, names waiting for an amount
AmountLines ==
    {L_kihonkyu, L_shikyu_gokei_1, L_ten_digits, L_unclosed_unit, L_teate_05, L_teate_5, L_50000, L_paren_shotokuzei}

\* metadata, header and total labels beside an amount
LabelLines ==
    {L_sonota_5000, L_sonota, L_5000, L_shain_bango, L_kihonkyu_shimei, L_shikyu_gokei_12000, L_koza_furikomi_1_123, L_blank}

\* section headers before item lines
SectionLines ==
    {L_shugyo_komoku, L_togetsu_ran, L_shikyu_komoku, L_kojo_komoku, L_kihonkyu_250000, L_shukkin_kekkin}

\* names alone on their lines and bare amounts
QueueLines ==
    {L_kihonkyu, L_tsukin_teate, L_250000, L_30000, L_5, L_shugyo_komoku}

\* lines with an exclusion or noise marker, after a queued name or a header
NoiseLines ==
    {L_kihonkyu, L_shikyu_komoku, L_sokyu_ruikei, L_kazei_taishogaku, L_hyojun_hoshu, L_hokenryo_kaitei, L_hikazei_tsukin}

\* metadata lines after a queued name and before a bare amount
MetadataLines ==
    {L_kihonkyu, L_shain_bango, L_shozoku_hikazei, L_shimei_yamada, L_50000}

\* the lines of test_amount_first_with_pending_name_queue
ExampleLines ==
    {L_kazei_taishogaku_label, L_koza_furikomi_1, L_135545_koho, L_218919, L_148405}

\* lines of several pairs and attendance records, in a section or in none
RecordLines ==
    {L_shikyu_komoku, L_kojo_komoku, L_kihonkyu_tsukin, L_honkyu_tsukinhi, L_shukkin_nissu_20, L_shukkin_nissu_overflow, L_kihonkyu_colon}

\* a name with an index digit beside a second name, and a bare amount
CombinedLines ==
    {L_tsukin_teate_1_jutaku, L_30000, L_kihonkyu, L_shikyu_komoku}

\* the lines of a text given to TotalsOnlyParser: a total label of each kind with its amount, a header and an item
TotalsOnlyLines ==
    {L_shikyu_gokei_300, L_sokyu_300, L_kojo_gokei_100, L_kojogaku_100, L_sashihiki_200, L_tedori_200, L_shikyu_komoku, L_kihonkyu_100}

(***************************************************************************)
(* The state machine: a text is read line by line by _parse_text, whose    *)
(* result _parse_file completes and upload_payslip recalculates.           *)
(***************************************************************************)
\* the longest text read, in lines
MaxLines == 4

\* the families of texts: a text is made of the lines of one family
Scenarios ==
    {"totals", "amounts", "labels", "sections", "queue", "noise", "metadata", "example",
     "records", "combined"}

Lines(s) ==
    CASE s = "totals" -> TotalLines
      [] s = "amounts" -> AmountLines
      [] s = "labels" -> LabelLines
      [] s = "sections" -> SectionLines
      [] s = "queue" -> QueueLines
      [] s = "noise" -> NoiseLines
      [] s = "metadata" -> MetadataLines
      [] s = "example" -> ExampleLines
      [] s = "records" -> RecordLines
      [] s = "combined" -> CombinedLines

\* the longest text of the family "example", in lines
MaxExampleLines == 5

\* the longest text of a family
MaxLen(s) ==
    CASE s = "example" -> MaxExampleLines
      [] s = "records" -> MaxLines - 1
      [] OTHER -> MaxLines

VARIABLES
    scenario,         \* the family the text's lines are drawn from
    pc,               \* "lines": in the loop of _parse_text; "parsed": _parse_text has
                      \* returned; "filed": _parse_file has returned; "uploaded":
                      \* upload_payslip has recalculated; "raised": an exception left
    text,             \* the lines read so far
    gross, net, deduction, items, attendance,                        \* locals of _parse_text
    current_section, until_marker, pending_section, pending_names,   \* locals of _parse_text
    parsed,           \* the dict returned by _parse_text, as _parse_file and
                      \* _recalc_totals update it
    arg, ret,         \* the argument and the return value of a helper called on its
                      \* own (_clean_amount, str.translate); <<>> in a parse
    payslips          \* the rows of the table payslips, by id, each with the rows of
                      \* payslip_items that belong to it

\* the table payslips with no row
NoPayslips == <<>>

vars == <<scenario, pc, text, gross, net, deduction, items, attendance,
          current_section, until_marker, pending_section, pending_names, parsed, arg, ret, payslips>>

\* the locals of _parse_text as one record
locals ==
    [gross |-> gross, net |-> net, deduction |-> deduction, items |-> items,
     attendance |-> attendance, current_section |-> current_section,
     until_marker |-> until_marker, pending_section |-> pending_section,
     pending_names |-> pending_names, raised |-> FALSE]

\* the locals become those of the record r
SetLocals(r) ==
    /\ gross' = r.gross
    /\ net' = r.net
    /\ deduction' = r.deduction
    /\ items' = r.items
    /\ attendance' = r.attendance
    /\ current_section' = r.current_section
    /\ until_marker' = r.until_marker
    /\ pending_section' = r.pending_section
    /\ pending_names' = r.pending_names

Init ==
    /\ scenario \in Scenarios
    /\ payslips = NoPayslips
    /\ pc = "lines"
    /\ text = <<>>
    /\ gross = parser_init.gross
    /\ net = parser_init.net
    /\ deduction = parser_init.deduction
    /\ items = parser_init.items
    /\ attendance = parser_init.attendance
    /\ current_section = parser_init.current_section
    /\ until_marker = parser_init.until_marker
    /\ pending_section = parser_init.pending_section
    /\ pending_names = parser_init.pending_names
    /\ parsed = parse_result(parser_init)
    /\ arg = <<>>
    /\ ret = <<>>

\* one iteration of the loop of _parse_text over the next line of the text
ReadLine ==
    /\ pc = "lines"
    /\ Len(text) < MaxLen(scenario)
    /\ \E raw_line \in Lines(scenario) :
          LET r == parse_line(locals, raw_line)
          IN  /\ text' = Append(text, raw_line)
              /\ IF r.raised
                 THEN pc' = "raised" /\ SetLocals(locals)
                 ELSE pc' = "lines" /\ SetLocals(r)
    /\ UNCHANGED <<payslips, arg, ret, scenario, parsed>>

\* the text ends: _parse_text returns its dict
ReturnParsed ==
    /\ pc = "lines"
    /\ pc' = "parsed"
    /\ parsed' = parse_result(locals)
    /\ UNCHANGED <<payslips, arg, ret, scenario, text, gross, net, deduction, items, attendance,
                   current_section, until_marker, pending_section, pending_names>>

\* _parse_file categorizes the items, fills the missing totals and warns
ParseFile ==
    /\ pc = "parsed"
    /\ pc' = "filed"
    /\ parsed' = _parse_file(parsed)
    /\ UNCHANGED <<payslips, arg, ret, scenario, text, gross, net, deduction, items, attendance,
                   current_section, until_marker, pending_section, pending_names>>

\* upload_payslip: _recalc_totals(parsed) after _parse_file
Upload ==
    /\ pc = "filed"
    /\ pc' = "uploaded"
    /\ parsed' = _recalc_totals(parsed)
    /\ UNCHANGED <<payslips, arg, ret, scenario, text, gross, net, deduction, items, attendance,
                   current_section, until_marker, pending_section, pending_names>>

Next == ReadLine \/ ReturnParsed \/ ParseFile \/ Upload

Spec == Init /\ [][Next]_vars


(***************************************************************************)
(* _categorize_items on its own: it is given any list of items, also items  *)
(* that _parse_text never builds.                                           *)
(***************************************************************************)
\* the longest list given to _categorize_items
MaxItems == 2

\* the names of the items: 基本給, 残業時間 (an attendance suffix), 健康保険料 (in
\* CATEGORY_MAP as deduction), 通勤料 and 年末調整精算 (deduction keywords), and
\* 雇保対象額 (in CATEGORY_MAP as skip)
ItemNames ==
    {<<"u57FA", "u672C", "u7D66">>,
     <<"u6B8B", "u696D", "u6642", "u9593">>,
     <<"u5065", "u5EB7", "u4FDD", "u967A", "u6599">>,
     <<"u901A", "u52E4", "u6599">>,
     <<"u5E74", "u672B", "u8ABF", "u6574", "u7CBE", "u7B97">>,
     <<"u96C7", "u4FDD", "u5BFE", "u8C61", "u984D">>}

ItemAmounts == {-5000, 5000}

ItemCategories == {None, "payment", "deduction", "net", "skip", "attendance"}

ItemSections == {None, "payment", "deduction", "attendance"}

\* the lists of at most MaxItems items
ItemLists ==
    UNION {[1..n -> [name : ItemNames, amount : ItemAmounts, category : ItemCategories,
                     section : ItemSections]] : n \in 0..MaxItems}

InitCategorize ==
    /\ scenario = "items"
    /\ payslips = NoPayslips
    /\ pc = "items"
    /\ text = <<>>
    /\ gross = parser_init.gross
    /\ net = parser_init.net
    /\ deduction = parser_init.deduction
    /\ items \in ItemLists
    /\ attendance = parser_init.attendance
    /\ current_section = parser_init.current_section
    /\ until_marker = parser_init.until_marker
    /\ pending_section = parser_init.pending_section
    /\ pending_names = parser_init.pending_names
    /\ parsed = parse_result(parser_init)
    /\ arg = <<>>
    /\ ret = <<>>

\* parsed["items"] = _categorize_items(items)
Categorize ==
    /\ pc = "items"
    /\ pc' = "categorized"
    /\ parsed' = [parsed EXCEPT !.items = _categorize_items(items)]
    /\ UNCHANGED <<payslips, arg, ret, scenario, text, gross, net, deduction, items, attendance,
                   current_section, until_marker, pending_section, pending_names>>

\* _categorize_items called on the list it returned
CategorizeAgain ==
    /\ pc = "categorized"
    /\ pc' = "recategorized"
    /\ ret' = _categorize_items(parsed.items)
    /\ UNCHANGED <<payslips, arg, scenario, text, gross, net, deduction, items, attendance,
                   current_section, until_marker, pending_section, pending_names, parsed>>

NextCategorize == Categorize \/ CategorizeAgain

SpecCategorize == InitCategorize /\ [][NextCategorize]_vars

(***************************************************************************)
(* The helpers on their own: _clean_amount on a token, and                  *)
(* str.translate(_TRANS_TABLE) on a string.                                 *)
(***************************************************************************)
\* the parser's variables where no text is parsed
NoParse ==
    /\ text = <<>>
    /\ gross = parser_init.gross
    /\ net = parser_init.net
    /\ deduction = parser_init.deduction
    /\ items = parser_init.items
    /\ attendance = parser_init.attendance
    /\ current_section = parser_init.current_section
    /\ until_marker = parser_init.until_marker
    /\ pending_section = parser_init.pending_section
    /\ pending_names = parser_init.pending_names
    /\ parsed = parse_result(parser_init)

\* the signs before a token or inside its parentheses: none, +, -, − , △, ▲
TokenSigns == {<<>>, <<"+">>, <<"-">>, <<"u2212">>, <<"u25B3">>, <<"u25B2">>}

\* the digits of a token: 500, 2,460, ５００, nine digits, ten digits
TokenDigits ==
    {<<"5", "0", "0">>,
     <<"2", ",", "4", "6", "0">>,
     <<"uFF15", "uFF10", "uFF10">>,
     <<"1", "2", "3", "4", "5", "6", "7", "8", "9">>,
     <<"1", ",", "2", "3", "4", ",", "5", "6", "7", ",", "8", "9", "0">>}

\* the tokens: sign digits, sign ( sign digits ), also the shapes the line
\* patterns admit (amount_only, amount_first_pattern, the value of item_amount)
Tokens ==
    {sign \o digits : sign \in TokenSigns, digits \in TokenDigits}
    \cup {outer \o <<"(">> \o inner \o digits \o <<")">> :
             outer \in TokenSigns, inner \in TokenSigns, digits \in TokenDigits}

InitAmount ==
    /\ scenario = "token"
    /\ pc = "token"
    /\ arg \in Tokens
    /\ ret = <<>>
    /\ NoParse
    /\ payslips = NoPayslips

\* amount = _clean_amount(token): it returns ("resolved") or raises ValueError
CleanAmount ==
    /\ pc = "token"
    /\ ret' = _clean_amount(arg)
    /\ pc' = IF _clean_amount(arg).ok THEN "resolved" ELSE "raised"
    /\ UNCHANGED <<payslips, arg, scenario, text, gross, net, deduction, items, attendance,
                   current_section, until_marker, pending_section, pending_names, parsed>>

NextAmount == CleanAmount

SpecAmount == InitAmount /\ [][NextAmount]_vars

\* the longest string translated
MaxChars == 2

\* the keys of _TRANS_TABLE, the characters it puts out, and two it leaves alone
Chars ==
    {_TRANS_TABLE[k][1] : k \in DOMAIN _TRANS_TABLE}
    \cup UNION {{_TRANS_TABLE[k][2][i] : i \in DOMAIN _TRANS_TABLE[k][2]} : k \in DOMAIN _TRANS_TABLE}
    \cup {" ", "u7D66"}

InitTranslate ==
    /\ scenario = "string"
    /\ pc = "string"
    /\ arg \in UNION {[1..n -> Chars] : n \in 0..MaxChars}
    /\ ret = <<>>
    /\ NoParse
    /\ payslips = NoPayslips

\* line = raw_line.translate(_TRANS_TABLE)
Translate ==
    /\ pc = "string"
    /\ ret' = translate(arg)
    /\ pc' = "translated"
    /\ UNCHANGED <<payslips, arg, scenario, text, gross, net, deduction, items, attendance,
                   current_section, until_marker, pending_section, pending_names, parsed>>

NextTranslate == Translate

SpecTranslate == InitTranslate /\ [][NextTranslate]_vars

(***************************************************************************)
(* Two calls of _parse_text whose loop iterations interleave, the first     *)
(* followed by further calls.  The locals of the first call are the         *)
(* variables gross ... pending_names and its lines are text; the locals of  *)
(* the other call are the record ret and its lines are arg.                 *)
(***************************************************************************)
\* the longest text of a call
MaxCallLines == 2

\* the lines of the calls: names, a bare amount and a section header
CallLines == {L_kihonkyu, L_tsukin_teate, L_250000, L_shugyo_komoku}

\* the locals of an iteration were pending_names one list for all calls
call_locals_shared_queue(own, other) == [own EXCEPT !.pending_names = other.pending_names]

\* the locals an iteration of a call works on: the nonlocal names of the
\* closures bind to the frame of their own call (283-287, 262, 291)
call_locals(own, other) == own

\* `for raw_line in text.splitlines()` over the lines ls, from the locals st
RECURSIVE parse_lines(_, _)
parse_lines(st, ls) ==
    IF ls = <<>> \/ st.raised THEN st ELSE parse_lines(parse_line(st, Head(ls)), Tail(ls))

InitCalls ==
    /\ scenario = "calls"
    /\ payslips = NoPayslips
    /\ pc = "calls"
    /\ arg = <<>>
    /\ ret = parser_init
    /\ text = <<>>
    /\ gross = parser_init.gross
    /\ net = parser_init.net
    /\ deduction = parser_init.deduction
    /\ items = parser_init.items
    /\ attendance = parser_init.attendance
    /\ current_section = parser_init.current_section
    /\ until_marker = parser_init.until_marker
    /\ pending_section = parser_init.pending_section
    /\ pending_names = parser_init.pending_names
    /\ parsed = parse_result(parser_init)

\* an iteration of the loop of the first call
ReadLineFirst ==
    /\ pc = "calls"
    /\ Len(text) < MaxCallLines
    /\ \E raw_line \in CallLines :
          LET r == parse_line(call_locals(locals, ret), raw_line)
          IN  /\ text' = Append(text, raw_line)
              /\ IF r.raised
                 THEN pc' = "raised" /\ SetLocals(locals)
                 ELSE pc' = "calls" /\ SetLocals(r)
    /\ UNCHANGED <<payslips, arg, ret, scenario, parsed>>

\* an iteration of the loop of the other call
ReadLineOther ==
    /\ pc = "calls"
    /\ Len(arg) < MaxCallLines
    /\ \E raw_line \in CallLines :
          LET r == parse_line(call_locals(ret, locals), raw_line)
          IN  /\ arg' = Append(arg, raw_line)
              /\ IF r.raised
                 THEN pc' = "raised" /\ ret' = ret
                 ELSE pc' = "calls" /\ ret' = r
    /\ UNCHANGED <<payslips, scenario, text, gross, net, deduction, items, attendance,
                   current_section, until_marker, pending_section, pending_names, parsed>>

\* the first call returns its dict and the next call begins (906-912, 283-287)
NextCall ==
    /\ pc = "calls"
    /\ text # <<>>
    /\ parsed' = parse_result(locals)
    /\ text' = <<>>
    /\ SetLocals(parser_init)
    /\ UNCHANGED <<payslips, arg, ret, scenario, pc>>

NextCalls == ReadLineFirst \/ ReadLineOther \/ NextCall

SpecCalls == InitCalls /\ [][NextCalls]_vars

(***************************************************************************)
(* The token loops of the fallback (746-904), one iteration a step: the     *)
(* while loop of parse_token_pairs, then, where it handled nothing, the     *)
(* while loop of the fallback.  arg is the token list, ret the record of    *)
(* the running loop: [st, i, handled] and, in the fallback, name_queue.     *)
(***************************************************************************)
\* the longest token list
MaxTokens == 3

\* the tokens: a name, a SECTION_MAP key, an amount, an amount of ten digits, a
\* small number, a name with digits, a name with ten digits, a unit, a colon
TokenWords ==
    {L_kihonkyu, L_shugyo_komoku, L_250000, L_ten_digits, L_5, L_teate_05,
     L_kihonkyu \o L_ten_digits, <<"u65E5">>, <<":">>}

\* the locals the fallback is entered with: fresh, with a queued name, with a
\* pending section
TokenLocals ==
    {parser_init,
     [parser_init EXCEPT !.pending_names = <<L_tsukin_teate>>],
     [parser_init EXCEPT !.pending_section = "attendance"]}

InitTokens ==
    /\ scenario = "tokens"
    /\ pc = "line"
    /\ arg = <<>>
    /\ ret = <<>>
    /\ NoParse
    /\ payslips = NoPayslips

\* tokens = [t for t in re.split(r"\s+", line) if t]; if tokens:
\* parse_token_pairs(tokens) begins (747-749, 292-293)
SplitLine ==
    /\ pc = "line"
    /\ pc' = "pairs"
    /\ arg' \in UNION {[1..n -> TokenWords] : n \in 1..MaxTokens}
    /\ ret' \in {[st |-> st, i |-> 1, handled |-> FALSE] : st \in TokenLocals}
    /\ UNCHANGED <<payslips, scenario, text, gross, net, deduction, items, attendance,
                   current_section, until_marker, pending_section, pending_names, parsed>>

\* one iteration of `while i < len(tokens) - 1` of parse_token_pairs (294-420)
PairStep ==
    /\ pc = "pairs"
    /\ ret.i <= Len(arg) - 1
    /\ ret' = token_pair_step(ret.st, arg, ret.i, ret.handled)
    /\ UNCHANGED <<payslips, pc, arg, scenario, text, gross, net, deduction, items, attendance,
                   current_section, until_marker, pending_section, pending_names, parsed>>

\* parse_token_pairs returns: handled, or the fallback loop begins (749-755)
PairsReturn ==
    /\ pc = "pairs"
    /\ ~(ret.i <= Len(arg) - 1)
    /\ IF ret.handled
       THEN pc' = "returned" /\ ret' = ret
       ELSE /\ pc' = "fallback"
            /\ ret' = [st |-> clear_pending(ret.st), i |-> 1,
                       name_queue |-> ret.st.pending_names, handled |-> FALSE]
    /\ UNCHANGED <<payslips, arg, scenario, text, gross, net, deduction, items, attendance,
                   current_section, until_marker, pending_section, pending_names, parsed>>

\* one iteration of `while i < len(tokens)` of the fallback (756-899)
FallbackStep ==
    /\ pc = "fallback"
    /\ ret.i <= Len(arg)
    /\ ret' = fallback_step(ret, arg)
    /\ pc' = IF fallback_step(ret, arg).st.raised THEN "raised" ELSE "fallback"
    /\ UNCHANGED <<payslips, arg, scenario, text, gross, net, deduction, items, attendance,
                   current_section, until_marker, pending_section, pending_names, parsed>>

\* the fallback loop ends (901-904)
FallbackReturn ==
    /\ pc = "fallback"
    /\ ~(ret.i <= Len(arg))
    /\ pc' = "returned"
    /\ UNCHANGED <<payslips, ret, arg, scenario, text, gross, net, deduction, items, attendance,
                   current_section, until_marker, pending_section, pending_names, parsed>>

NextTokens == SplitLine \/ PairStep \/ PairsReturn \/ FallbackStep \/ FallbackReturn

\* a loop is before an iteration: the guard of PairStep or of FallbackStep holds
iterating == (pc = "pairs" /\ ret.i <= Len(arg) - 1) \/ (pc = "fallback" /\ ret.i <= Len(arg))

\* the interpreter runs the next iteration of a running loop: weak fairness of
\* PairStep \/ FallbackStep, which is enabled exactly where iterating holds
IterationFairness == []<>(~iterating) \/ []<><<PairStep \/ FallbackStep>>_vars

\* the interpreter runs the iterations and the statements after a loop
SpecTokens ==
    InitTokens /\ [][NextTokens]_vars /\ IterationFairness /\ WF_vars(PairsReturn \/ FallbackReturn)

(***************************************************************************)
(* _recalc_totals on its own, on the dicts save_payslip and update_payslip  *)
(* give it: data.model_dump() of a PayslipCreate or PayslipUpdate, in which *)
(* every field of PayslipBase is a key, None where the request left it out. *)
(***************************************************************************)
\* the longest item list of a payload
MaxPayloadItems == 2

\* the items of a payload: PayslipItem of schemas.py, amount required,
\* category one of the Literal values or None
PayloadItemSet ==
    [name : {<<"t", "a", "x">>}, amount : {-30, 120}, category : {None, "payment", "deduction", "net"},
     section : {None}]

\* the values of a total of a payload: unset or an int
PayloadGross == {<<>>, <<0>>, <<100>>}
PayloadDeduction == {<<>>, <<20>>}
PayloadNet == {<<>>, <<5>>}

\* the payloads given to _recalc_totals
RecalcPayloads ==
    [gross_amount : PayloadGross, deduction_amount : PayloadDeduction, net_amount : PayloadNet,
     items : UNION {[1..n -> PayloadItemSet] : n \in 0..MaxPayloadItems}]

InitRecalc ==
    /\ scenario = "payload"
    /\ pc = "payload"
    /\ arg \in RecalcPayloads
    /\ ret = <<>>
    /\ NoParse
    /\ payslips = NoPayslips

\* _recalc_totals(payload)
Recalc ==
    /\ pc = "payload"
    /\ IF _recalc_totals_raises(arg)
       THEN pc' = "raised" /\ ret' = ret
       ELSE pc' = "recalculated" /\ ret' = _recalc_totals(arg)
    /\ UNCHANGED <<payslips, arg, scenario, text, gross, net, deduction, items, attendance,
                   current_section, until_marker, pending_section, pending_names, parsed>>

NextRecalc == Recalc

SpecRecalc == InitRecalc /\ [][NextRecalc]_vars

(***************************************************************************)
(* TotalsOnlyParser.parse of ocr/simple_totals.py on the text that          *)
(* call_vision_api returns: TOTAL_PAT.finditer over the whole text, the     *)
(* chain of tests on the matched label, the derivation of a missing total   *)
(* and _parse_items.                                                        *)
(***************************************************************************)
\* the labels of TOTAL_PAT, in the order of its alternation
TOTAL_PAT ==
    << <<"u652F", "u7D66", "u5408", "u8A08">>,           \* 支給合計
       <<"u7DCF", "u652F", "u7D66", "u984D">>,           \* 総支給額
       <<"u63A7", "u9664", "u5408", "u8A08">>,           \* 控除合計
       <<"u63A7", "u9664", "u984D">>,                    \* 控除額
       <<"u5DEE", "u5F15", "u652F", "u7D66", "u984D">>,  \* 差引支給額
       <<"u5DEE", "u5F15", "u652F", "u7D66">>,           \* 差引支給
       <<"u624B", "u53D6", "u308A">>,                    \* 手取り
       <<"u624B", "u53D6", "u984D">> >>                  \* 手取額

\* the full-width digits ０ .. ９
FullDigit ==
    {"uFF10", "uFF11", "uFF12", "uFF13", "uFF14", "uFF15", "uFF16", "uFF17", "uFF18", "uFF19"}

\* the characters [\d０-９\-] that end the gap between a label and its value
TotalGapEnd == Digit \cup FullDigit \cup {"-"}

\* the characters [\-\d０-９,，()] of a value
TotalValueChars == TotalGapEnd \cup {",", "uFF0C", "(", ")"}

\* the line separator of the text
Newline == "u000A"

\* "\n".join(lines)
RECURSIVE join_lines(_)
join_lines(ls) ==
    IF ls = <<>> THEN <<>>
    ELSE IF Len(ls) = 1 THEN ls[1]
    ELSE ls[1] \o <<Newline>> \o join_lines(Tail(ls))

\* _FW_TO_ASCII on one character
fw_to_ascii(c) ==
    CASE c = "uFF10" -> "0" [] c = "uFF11" -> "1" [] c = "uFF12" -> "2" [] c = "uFF13" -> "3"
      [] c = "uFF14" -> "4" [] c = "uFF15" -> "5" [] c = "uFF16" -> "6" [] c = "uFF17" -> "7"
      [] c = "uFF18" -> "8" [] c = "uFF19" -> "9" [] c = "uFF0D" -> "-" [] OTHER -> c

\* _normalize_digits
_normalize_digits(s) == [i \in DOMAIN s |-> fw_to_ascii(s[i])]

\* the string _clean gives to int(): commas removed, "(" replaced by "-", ")" removed
RECURSIVE clean_chars(_)
clean_chars(s) ==
    IF s = <<>> THEN <<>>
    ELSE IF Head(s) \in {",", "uFF0C", ")"} THEN clean_chars(Tail(s))
    ELSE IF Head(s) = "(" THEN <<"-">> \o clean_chars(Tail(s))
    ELSE <<Head(s)>> \o clean_chars(Tail(s))

\* _clean: [ok, val], ok = FALSE where int() raises ValueError
_clean(n) ==
    LET converted(s) == IF int_ok(s) THEN [ok |-> TRUE, val |-> int_value(s)]
                        ELSE [ok |-> FALSE, val |-> 0]
    IN  converted(clean_chars(_normalize_digits(n)))

\* the indices of the labels of TOTAL_PAT that begin s
labels_at(s) == {k \in DOMAIN TOTAL_PAT : startswith(s, TOTAL_PAT[k])}

\* the value TOTAL_PAT matches in the text r after a label: the gap
\* [^\d０-９\-]* is greedy and ends at the first digit or minus sign, where the
\* value runs as far as its characters go; with no digit and no minus sign in r
\* the gap backtracks to the last value character of r, which is the value
total_value(r) ==
    LET gap == LeadNotIn(r, TotalGapEnd)
        run(v) == [found |-> TRUE, val |-> Upto(v, LeadIn(v, TotalValueChars)),
                   rest |-> From(v, LeadIn(v, TotalValueChars) + 1)]
        tail == TrailNotIn(r, TotalValueChars)
    IN  IF gap < Len(r) THEN run(From(r, gap + 1))
        ELSE IF Len(r) - tail >= 1
        THEN [found |-> TRUE, val |-> <<r[Len(r) - tail]>>, rest |-> From(r, Len(r) - tail + 1)]
        ELSE [found |-> FALSE, val |-> <<>>, rest |-> <<>>]

\* TOTAL_PAT.finditer(text): the matches <<label, value>> from left to right
RECURSIVE total_matches(_)
total_matches(s) ==
    LET matched(key, v) ==
            IF v.found THEN <<<<key, v.val>>>> \o total_matches(v.rest)
            ELSE total_matches(Tail(s))
        at(ks) ==
            IF ks = {} THEN total_matches(Tail(s))
            ELSE matched(TOTAL_PAT[Min(ks)], total_value(From(s, Len(TOTAL_PAT[Min(ks)]) + 1)))
    IN  IF s = <<>> THEN <<>> ELSE at(labels_at(s))

\* the loop over the matches (102-110): the totals after the matches ms, from
\* the totals t; raised where _clean raises
RECURSIVE assign_totals(_, _)
assign_totals(t, ms) ==
    LET key == Head(ms)[1]
        c == _clean(Head(ms)[2])
        shikyu == <<"u652F", "u7D66">>
        gokei == <<"u5408", "u8A08">>
        kojo == <<"u63A7", "u9664">>
        sashihiki == <<"u5DEE", "u5F15">>
        assigned ==
            IF contains(key, shikyu) /\ contains(key, gokei) THEN [t EXCEPT !.gross = <<c.val>>]
            ELSE IF contains(key, kojo) /\ contains(key, gokei) THEN [t EXCEPT !.deduction = <<c.val>>]
            ELSE IF contains(key, sashihiki) THEN [t EXCEPT !.net = <<c.val>>]
            ELSE t
    IN  IF ms = <<>> THEN t
        ELSE IF ~c.ok THEN [t EXCEPT !.raised = "invalid literal"]
        ELSE assign_totals(assigned, Tail(ms))

\* the derivation of a missing total (112-119)
derive_totals(t) ==
    LET g == IF t.gross = <<>> /\ t.net # <<>> /\ t.deduction # <<>>
             THEN <<t.net[1] + t.deduction[1]>> ELSE t.gross
        d == IF t.deduction = <<>> /\ g # <<>> /\ t.net # <<>>
             THEN <<g[1] - t.net[1]>> ELSE t.deduction
        n == IF t.net = <<>> /\ g # <<>> /\ d # <<>> THEN <<g[1] - d[1]>> ELSE t.net
    IN  IF t.raised # None THEN t
        ELSE IF g = <<>> \/ d = <<>> \/ n = <<>>
        THEN [t EXCEPT !.raised = "Totals not found"]
        ELSE [t EXCEPT !.gross = g, !.deduction = d, !.net = n]

\* _parse_items on the lines ls in the mode m: [raised, items]
RECURSIVE _parse_items(_, _)
_parse_items(ls, m) ==
    LET line == strip(Head(ls))
        n == TrailIn(line, TotalValueChars)
        c == _clean(From(line, Len(line) - n + 1))
        item == [name |-> strip(Upto(line, Len(line) - n)), amount |-> c.val, category |-> m]
        more(r) == [r EXCEPT !.items = <<item>> \o @]
        closing == << <<"u5C31", "u696D", "u9805", "u76EE">>, <<"u652F", "u7D66", "u5408", "u8A08">>,
                      <<"u63A7", "u9664", "u5408", "u8A08">>,
                      <<"u5DEE", "u5F15", "u652F", "u7D66", "u984D">> >>
    IN  IF ls = <<>> THEN [raised |-> None, items |-> <<>>]
        ELSE IF line = <<>> THEN _parse_items(Tail(ls), m)
        ELSE IF contains(line, <<"u652F", "u7D66", "u9805", "u76EE">>) THEN _parse_items(Tail(ls), "u652Fu7D66")
        ELSE IF contains(line, <<"u63A7", "u9664", "u9805", "u76EE">>) THEN _parse_items(Tail(ls), "u63A7u9664")
        ELSE IF containsAny(line, closing) THEN _parse_items(Tail(ls), None)
        ELSE IF m = None \/ n = 0 THEN _parse_items(Tail(ls), m)
        ELSE IF ~c.ok THEN [raised |-> "invalid literal", items |-> <<>>]
        ELSE more(_parse_items(Tail(ls), m))

\* TotalsOnlyParser.parse on the lines ls: the OCRResult, or the message of the
\* ValueError in raised
totals_only_parse(ls) ==
    LET result(t, its) ==
            IF t.raised # None THEN t
            ELSE IF its.raised # None THEN [t EXCEPT !.raised = its.raised]
            ELSE [t EXCEPT !.items = its.items]
        totals(t) == result(t, IF t.raised # None THEN [raised |-> None, items |-> <<>>]
                                ELSE _parse_items(ls, None))
    IN  totals(derive_totals(assign_totals(
            [gross |-> <<>>, deduction |-> <<>>, net |-> <<>>, items |-> <<>>, raised |-> None],
            total_matches(join_lines(ls)))))

\* the longest text given to TotalsOnlyParser, in lines
MaxTotalsLines == 3

InitTotalsOnly ==
    /\ scenario = "content"
    /\ pc = "content"
    /\ arg \in UNION {[1..n -> TotalsOnlyLines] : n \in 0..MaxTotalsLines}
    /\ ret = <<>>
    /\ NoParse
    /\ payslips = NoPayslips

\* TotalsOnlyParser.parse(content)
ParseTotals ==
    /\ pc = "content"
    /\ ret' = totals_only_parse(arg)
    /\ pc' = IF ret'.raised # None THEN "raised" ELSE "parsed"
    /\ UNCHANGED <<payslips, arg, scenario, text, gross, net, deduction, items, attendance,
                   current_section, until_marker, pending_section, pending_names, parsed>>

NextTotalsOnly == ParseTotals

SpecTotalsOnly == InitTotalsOnly /\ [][NextTotalsOnly]_vars

(***************************************************************************)
(* The endpoints over the stored payslips: save_payslip, list_payslips,    *)
(* list_filtered_payslips, delete_payslip, update_payslip and get_payslip. *)
(* A row of payslips is a record of the columns of models.Payslip the      *)
(* endpoints read or write, with the rows of payslip_items that belong to  *)
(* it as the sequence items; a date is <<year, month, day>>, and <<>> is    *)
(* the None of a date, of a date string and of a type. Each endpoint       *)
(* is one step: its session is opened by get_db for the request and        *)
(* closed after it, so what it did not commit is not stored.               *)
(***************************************************************************)
\* the most rows the table holds, and so the ids the database gives out
MaxIds == 2

Ids == 1..MaxIds

\* the fields of one dash-separated string: "2024-01" -> <<"2024", "01">>
RECURSIVE dash_fields(_)
dash_fields(s) ==
    LET n == LeadNotIn(s, {"-"})
    IN  IF n = Len(s) THEN <<s>>
        ELSE <<Upto(s, n)>> \o dash_fields(From(s, n + 2))

\* calendar.monthrange(y, m)[1]
days_in_month(y, m) ==
    IF m \in {4, 6, 9, 11} THEN 30
    ELSE IF m # 2 THEN 31
    ELSE IF y % 4 = 0 /\ (y % 100 # 0 \/ y % 400 = 0) THEN 29 ELSE 28

\* datetime.strptime(s, "%Y-%m-%d") for n = 3 and datetime.strptime(s, "%Y-%m")
\* with day 1 for n = 2, as a date; <<>> where strptime raises ValueError
strptime(s, n) ==
    LET f == dash_fields(s)
        digits(x, lo, hi) == Len(x) \in lo..hi /\ \A i \in DOMAIN x : x[i] \in Digit
        y == digits_value(f[1])
        m == digits_value(f[2])
        d == IF n = 2 THEN 1
             ELSE IF f[3][1] = " " THEN digits_value(Tail(f[3])) ELSE digits_value(f[3])
        day_ok == \/ n = 2
                  \/ digits(f[3], 1, 2)
                  \/ Len(f[3]) = 2 /\ f[3][1] = " " /\ f[3][2] \in Digit \ {"0"}
    IN  IF /\ Len(f) = n
           /\ digits(f[1], 4, 4) /\ y >= 1
           /\ digits(f[2], 1, 2) /\ m \in 1..12
           /\ day_ok /\ d \in 1..days_in_month(y, m)
        THEN <<y, m, d>> ELSE <<>>

\* _parse_date: [ok, date]; ok is FALSE where it raises HTTPException 400
_parse_date(date_str) ==
    LET first_format(dt) == [ok |-> dt # <<>>, date |-> dt]
        formats(dt) == IF dt # <<>> THEN [ok |-> TRUE, date |-> dt]
                       ELSE first_format(strptime(date_str, 2))
    IN  IF date_str = <<>> THEN [ok |-> TRUE, date |-> <<>>]
        ELSE formats(strptime(date_str, 3))

\* the decimal digits of n, zero-padded to the width w
RECURSIVE zero_padded(_, _)
zero_padded(n, w) ==
    IF w = 0 THEN <<>>
    ELSE zero_padded(n \div 10, w - 1) \o <<CHOOSE c \in Digit : digit_value(c) = n % 10>>

\* _to_iso: date.isoformat() or None
_to_iso(d) ==
    IF d = <<>> THEN <<>>
    ELSE zero_padded(d[1], 4) \o <<"-">> \o zero_padded(d[2], 2) \o <<"-">> \o zero_padded(d[3], 2)

\* the value of `total or 0` for a stored total
or_zero(total) == IF total = <<>> THEN 0 ELSE total[1]

\* _schema_from_model where it returns: the payslip has no item
_schema_from_model(id, p) ==
    [id |-> id, filename |-> p.filename, date |-> _to_iso(p.date), type |-> p.type,
     gross_amount |-> or_zero(p.gross_amount), net_amount |-> or_zero(p.net_amount),
     deduction_amount |-> or_zero(p.deduction_amount), items |-> <<>>]

\* _schema_from_model raises AttributeError: it reads it.section of the first
\* item, and models.PayslipItem has no attribute section
_schema_from_model_raises(p) == p.items # <<>>

\* the responses
Ok(body) == [status |-> 200, body |-> body]

Failed(status) == [status |-> status, body |-> <<>>]

\* the row save_payslip and update_payslip write for a recalculated payload
payslip_row(payload, date_obj) ==
    [filename |-> payload.filename, date |-> date_obj, type |-> payload.type,
     gross_amount |-> payload.gross_amount, net_amount |-> payload.net_amount,
     deduction_amount |-> payload.deduction_amount,
     items |-> [i \in DOMAIN payload.items |->
                   [name |-> payload.items[i].name, amount |-> payload.items[i].amount,
                    category |-> payload.items[i].category]]]

\* the table with the row p under the id
stored(db, id, p) == [i \in DOMAIN db \cup {id} |-> IF i = id THEN p ELSE db[i]]

\* the table without the row of the id
removed(db, id) == [i \in DOMAIN db \ {id} |-> db[i]]

\* .filter_by(date=date_obj, type=type, net_amount=net).first() finds a row
exists(db, date_obj, type, net_amount) ==
    \E i \in DOMAIN db :
       db[i].date = date_obj /\ db[i].type = type /\ db[i].net_amount = net_amount

\* save_payslip with the id the database gives the new row: [db, ret]
save_payslip(db, data, id) ==
    LET inserted(p) ==
            [db |-> stored(db, id, p),
             ret |-> IF _schema_from_model_raises(p) THEN Failed(500)
                     ELSE Ok(_schema_from_model(id, p))]
        checked(payload, d) ==
            IF ~d.ok THEN [db |-> db, ret |-> Failed(400)]
            ELSE IF exists(db, d.date, payload.type, payload.net_amount)
                 THEN [db |-> db, ret |-> Failed(409)]
            ELSE inserted(payslip_row(payload, d.date))
        dated(payload) == checked(payload, _parse_date(payload.date))
    IN  IF _recalc_totals_raises(data) THEN [db |-> db, ret |-> Failed(500)]
        ELSE dated(_recalc_totals(data))

\* the ids of a set in ascending order
RECURSIVE ascending(_)
ascending(S) == IF S = {} THEN <<>> ELSE <<Min(S)>> \o ascending(S \ {Min(S)})

\* [_schema_from_model(p) for p in records] for the rows with the ids
schemas_of(db, ids) ==
    LET schemas(records) ==
            Ok([k \in DOMAIN records |-> _schema_from_model(records[k], db[records[k]])])
    IN  IF \E i \in ids : _schema_from_model_raises(db[i]) THEN Failed(500)
        ELSE schemas(ascending(ids))

\* list_payslips
list_payslips(db) == schemas_of(db, DOMAIN db)

\* the rows list_filtered_payslips selects; a falsy year or kind does not filter
filtered(db, year, kind) ==
    {i \in DOMAIN db :
        /\ year # 0 => db[i].date # <<>> /\ db[i].date[1] = year
        /\ kind # <<>> => db[i].type = kind}

\* list_filtered_payslips
list_filtered_payslips(db, year, kind) == schemas_of(db, filtered(db, year, kind))

\* a delete that answers without db.commit(): the session is closed and the
\* row is still stored
delete_payslip_uncommitted(db, payslip_id) ==
    IF payslip_id \notin DOMAIN db THEN [db |-> db, ret |-> Failed(404)]
    ELSE [db |-> db, ret |-> Ok("deleted")]

\* delete_payslip: [db, ret]
delete_payslip(db, payslip_id) ==
    IF payslip_id \notin DOMAIN db THEN [db |-> db, ret |-> Failed(404)]
    ELSE [db |-> removed(db, payslip_id), ret |-> Ok("deleted")]

\* update_payslip: [db, ret]
update_payslip(db, id, data) ==
    LET updated(p) ==
            [db |-> stored(db, id, p),
             ret |-> IF _schema_from_model_raises(p) THEN Failed(500)
                     ELSE Ok(_schema_from_model(id, p))]
        checked(payload, d) ==
            IF ~d.ok THEN [db |-> db, ret |-> Failed(400)]
            ELSE updated(payslip_row(payload, d.date))
        dated(payload) == checked(payload, _parse_date(payload.date))
    IN  IF id \notin DOMAIN db THEN [db |-> db, ret |-> Failed(404)]
        ELSE IF _recalc_totals_raises(data) THEN [db |-> db, ret |-> Failed(500)]
        ELSE dated(_recalc_totals(data))

\* get_payslip
get_payslip(db, payslip_id) ==
    IF payslip_id \notin DOMAIN db THEN Failed(404)
    ELSE IF _schema_from_model_raises(db[payslip_id]) THEN Failed(500)
    ELSE Ok(_schema_from_model(payslip_id, db[payslip_id]))

\* the request bodies: PayslipCreate, every field of PayslipBase a key
PayloadDates == {<<"2", "0", "2", "4", "-", "0", "1">>,
                 <<"2", "0", "2", "4", "-", "0", "1", "-", "0", "1">>,
                 <<"2", "0", "2", "4", "-", "1", "3">>}

PayloadTypes == {<<"s", "a", "l", "a", "r", "y">>, <<"b", "o", "n", "u", "s">>}

TaxItem == [name |-> <<"t", "a", "x">>, amount |-> -10, category |-> "deduction", section |-> None]

Payloads ==
    [filename : {<<"a", ".", "t", "x", "t">>}, date : PayloadDates, type : PayloadTypes,
     gross_amount : {<<>>, <<100>>}, deduction_amount : {<<20>>}, net_amount : {<<5>>},
     items : {<<>>, <<TaxItem>>}]

\* the query parameters of list_filtered_payslips; 0 and <<>> where left out
Years == {0, 2023, 2024}

Kinds == {<<>>, <<"s", "a", "l", "a", "r", "y">>, <<"b", "o", "n", "u", "s">>}

InitStore ==
    /\ scenario = "store"
    /\ pc = "serving"
    /\ payslips = NoPayslips
    /\ arg = [op |-> "start"]
    /\ ret = Failed(0)
    /\ NoParse

\* one request answered: the table and the response become those of r
Answer(request, r) ==
    /\ pc = "serving"
    /\ arg' = request
    /\ payslips' = r.db
    /\ ret' = r.ret
    /\ UNCHANGED <<pc, scenario, text, gross, net, deduction, items, attendance,
                   current_section, until_marker, pending_section, pending_names, parsed>>

\* the id is one the table does not hold; when the table holds MaxIds rows only
\* the requests that add no row are answered
Save ==
    LET answer(data, id, r) ==
            /\ id \notin DOMAIN payslips \/ r.db = payslips
            /\ Answer([op |-> "save", data |-> data], r)
    IN  \E data \in Payloads, id \in Ids : answer(data, id, save_payslip(payslips, data, id))

ListAll == Answer([op |-> "list"], [db |-> payslips, ret |-> list_payslips(payslips)])

ListFiltered ==
    \E year \in Years, kind \in Kinds :
       Answer([op |-> "list_filtered", year |-> year, kind |-> kind],
              [db |-> payslips, ret |-> list_filtered_payslips(payslips, year, kind)])

Delete ==
    \E payslip_id \in Ids :
       Answer([op |-> "delete", id |-> payslip_id], delete_payslip(payslips, payslip_id))

Update ==
    \E payslip_id \in Ids, data \in Payloads :
       Answer([op |-> "update", id |-> payslip_id, data |-> data],
              update_payslip(payslips, payslip_id, data))

Get ==
    \E payslip_id \in Ids :
       Answer([op |-> "get", id |-> payslip_id],
              [db |-> payslips, ret |-> get_payslip(payslips, payslip_id)])

NextStore == Save \/ ListAll \/ ListFiltered \/ Delete \/ Update \/ Get

SpecStore == InitStore /\ [][NextStore]_vars

(***************************************************************************)
(* Properties                                                              *)
(***************************************************************************)
\* the parse result: the dict after _parse_text and _parse_file
is_parse_result == pc = "filed"

\* label is one the total extractor assigns a total for
total_label(label) == _handle_total_line(parser_init, label, 0).st # parser_init

\* how often the line l occurs in the text read
occurrences(l) == Cardinality({i \in DOMAIN text : text[i] = l})

\* C1: within one _parse_text call each of gross, deduction and net is assigned
\* at most once: a line read after a total was set leaves that total as it is.
C1_TotalsAssignedOnce ==
    [][pc = "lines" /\ pc' = "lines" =>
          /\ (gross # <<>> => gross' = gross)
          /\ (deduction # <<>> => deduction' = deduction)
          /\ (net # <<>> => net' = net)]_vars

\* C2: a total that _parse_text set from a total line has the same value after
\* _parse_file and after _recalc_totals in upload_payslip.
C2_ExplicitTotalsKept ==
    pc \in {"filed", "uploaded"} =>
        /\ (gross # <<>> => parsed.gross_amount = gross)
        /\ (deduction # <<>> => parsed.deduction_amount = deduction)
        /\ (net # <<>> => parsed.net_amount = net)

\* C3: where no line of the text gave an item or a total, the parse result has
\* no items, gross, deduction and net unset (not 0) and no warnings.
C3_NothingFabricated ==
    is_parse_result /\ items = <<>> /\ gross = <<>> /\ deduction = <<>> /\ net = <<>> =>
        /\ parsed.items = <<>>
        /\ parsed.gross_amount = <<>>
        /\ parsed.deduction_amount = <<>>
        /\ parsed.net_amount = <<>>
        /\ parsed.warnings = <<>>

\* C4: no sequence of lines makes the amount resolver's error leave _parse_text.
C4_ResolverErrorCaught == pc # "raised"

\* C5: every item of _parse_text has |amount| >= 10 unless its section is
\* attendance.
C5_NoSmallItems ==
    \A i \in DOMAIN items : items[i].section = "attendance" \/ Abs(items[i].amount) >= 10

\* C6: no item of _parse_text is named by a member of KNOWN_METADATA_LABELS or
\* of KNOWN_SECTION_LABELS.
C6_NoLabelItems ==
    \A i \in DOMAIN items :
        /\ ~inList(items[i].name, KNOWN_METADATA_LABELS)
        /\ ~inList(items[i].name, KNOWN_SECTION_LABELS)

\* C7: no item of _parse_text is named by a label the total extractor
\* recognises as a total.
C7_NoTotalItems == \A i \in DOMAIN items : ~total_label(items[i].name)

\* C8: for a text with exactly one total line for each of gross (300), deduction
\* (100) and net (200 = 300 - 100) among item lines and section headers, the
\* parse result has these three totals and no warning.
C8_ConsistentTotals ==
    /\ is_parse_result
    /\ occurrences(L_shikyu_gokei_300) = 1
    /\ occurrences(L_kojo_gokei_100) = 1
    /\ occurrences(L_sashihiki_200) = 1
    /\ occurrences(L_shikyu_gokei_200) = 0
    /\ occurrences(L_sashihiki_201) = 0
    => /\ parsed.gross_amount = <<300>>
       /\ parsed.deduction_amount = <<100>>
       /\ parsed.net_amount = <<200>>
       /\ parsed.warnings = <<>>

\* C9: the line "支給合計 300" sets gross to 300 when gross is unset, and the
\* line "控除合計 100" sets deduction to 100 when deduction is unset, in every
\* parser state.
C9_TotalLineSetsTotal ==
    [][/\ (text' = Append(text, L_shikyu_gokei_300) /\ gross = <<>> => gross' = <<300>>)
       /\ (text' = Append(text, L_kojo_gokei_100) /\ deduction = <<>> => deduction' = <<100>>)]_vars

\* C10: the parse result has a warning exactly when gross, deduction and net are
\* all set and |(gross - deduction) - net| > 1.
C10_WarningBeyondTolerance ==
    is_parse_result =>
        (parsed.warnings # <<>> <=>
            /\ parsed.gross_amount # <<>>
            /\ parsed.deduction_amount # <<>>
            /\ parsed.net_amount # <<>>
            /\ Abs(parsed.gross_amount[1] - parsed.deduction_amount[1] - parsed.net_amount[1]) > 1)

\* the sum of the amounts of the items of a category
category_sum(its, category) ==
    sum([i \in DOMAIN its |-> IF its[i].category = category THEN its[i].amount ELSE 0])

\* C11: where the text gave no total, the parse result's gross is the sum of the
\* amounts of its items categorized payment, its deduction the sum of those
\* categorized deduction, and its net their difference.
C11_TotalsFromCategories ==
    is_parse_result /\ gross = <<>> /\ deduction = <<>> /\ net = <<>> =>
        /\ parsed.gross_amount = <<category_sum(parsed.items, "payment")>>
        /\ parsed.deduction_amount = <<category_sum(parsed.items, "deduction")>>
        /\ parsed.net_amount =
              <<category_sum(parsed.items, "payment") - category_sum(parsed.items, "deduction")>>

\* the line is a section header or a closing label: it begins with a key of
\* SECTION_BEGIN, with a closing marker of SECTION_BEGIN or with a key of
\* SECTION_MAP
section_header(l) ==
    LET line == translate(strip(l))
    IN  \/ \E k \in DOMAIN SECTION_BEGIN :
              startswith(line, SECTION_BEGIN[k][1]) \/ startswith(line, SECTION_BEGIN[k][3])
        \/ \E k \in DOMAIN SECTION_MAP : startswith(line, SECTION_MAP[k][1])

\* the last section header or closing label of the lines t begins with hdr
opened_by(t, hdr) ==
    LET hs == {i \in DOMAIN t : section_header(t[i])}
    IN  hs # {} /\ startswith(translate(strip(t[Max(hs)])), hdr)

\* the items a step appends
new_items == SubSeq(items', Len(items) + 1, Len(items'))

\* C12: every item emitted after a 支給項目 header and before the next header or
\* closing label has section payment and category payment, and every item after
\* a 控除項目 header has section deduction, whatever headers came before.
C12_ItemsTakeOpenedSection ==
    [][text' # text =>
          \A i \in DOMAIN new_items :
              /\ opened_by(text', SECTION_BEGIN[1][1]) =>
                    new_items[i].section = "payment" /\ new_items[i].category = "payment"
              /\ opened_by(text', SECTION_BEGIN[2][1]) =>
                    new_items[i].section = "deduction"]_vars

\* C13: while the section is attendance, by a header already applied or still
\* pending, no line that is not itself a header adds an item.
C13_AttendanceAddsNoItem ==
    [][/\ text' # text
       /\ ~section_header(text'[Len(text')])
       /\ apply_pending_section(locals).current_section = "attendance"
       => items' = items]_vars

\* the line is a bare amount: amount_only matches it
bare_amount(l) == amount_only(translate(strip(l)))

\* the ordinary item names alone on a line, and the bare amounts of at least 10
NameLines == {L_kihonkyu, L_tsukin_teate}
AmountValues == {<<L_250000, 250000>>, <<L_30000, 30000>>}

\* the value of a bare amount line of AmountValues
amount_value(l) == (CHOOSE a \in AmountValues : a[1] = l)[2]

\* the number of lines of t before the first that is no name line
leading_names(t) == Cardinality({i \in DOMAIN t : \A j \in 1..i : t[j] \in NameLines})

\* t is k name lines followed by at most k bare amount lines of AmountValues
names_then_amounts(t) ==
    /\ \A i \in DOMAIN t : i > leading_names(t) => \E a \in AmountValues : a[1] = t[i]
    /\ Len(t) <= 2 * leading_names(t)

\* C14: after name lines N1..Nk and bare amounts A1..Aj (j <= k, |Ai| >= 10) the
\* items are exactly (N1,A1),...,(Nj,Aj) in this order, and the queue holds the
\* names not yet paired; and a bare amount read with an empty queue leaves
\* items, attendance, totals and current section unchanged.
C14_FirstInFirstOut ==
    /\ [](pc = "lines" /\ names_then_amounts(text) =>
            /\ items = [i \in 1..(Len(text) - leading_names(text)) |->
                           PayslipItem(text[i], amount_value(text[leading_names(text) + i]),
                                       None, None)]
            /\ pending_names = SubSeq(text, Len(text) - leading_names(text) + 1,
                                      leading_names(text)))
    /\ [][text' # text /\ pc' = "lines" /\ pending_names = <<>> /\ bare_amount(text'[Len(text')]) =>
             UNCHANGED <<items, attendance, gross, deduction, net, current_section>>]_vars

\* two names, then their two amounts: two items
C14_TwoPairsRead ==
    /\ text = <<L_kihonkyu, L_tsukin_teate, L_250000, L_30000>>
    /\ Len(items) = 2
    /\ pending_names = <<>>

\* the names and amounts of a sequence of items
named_amounts(its) == [i \in DOMAIN its |-> <<its[i].name, its[i].amount>>]

\* C15: after the lines 課税対象額 / 口座振込額1 / "135,545 雇保対象額" / 218,919 /
\* 148,405 the items are, in order, 課税対象額 = 135545, 口座振込額 = 218919 and
\* 雇保対象額 = 148405: the amount-first line pairs its amount with the oldest
\* queued name and queues its own name.
C15_AmountFirstExample ==
    /\ pc = "lines"
    /\ text = <<L_kazei_taishogaku_label, L_koza_furikomi_1, L_135545_koho, L_218919, L_148405>>
    => named_amounts(items) =
          <<<<L_kazei_taishogaku_label, 135545>>,
            <<Upto(L_koza_furikomi_1, 5), 218919>>,
            <<From(L_135545_koho, 9), 148405>>>>

\* the line contains an exclusion or noise marker: an alternative of SKIP_PAT
noise_line(l) == containsAny(translate(strip(l)), SKIP_PAT)

starts_with_label(s) ==
    \E k \in DOMAIN KNOWN_METADATA_LABELS : startswith(s, KNOWN_METADATA_LABELS[k])

\* the line starts with a known metadata label
metadata_line(l) == starts_with_label(translate(strip(l)))

is_categorized == pc = "categorized"

\* C18: every item given with a category c other than skip and attendance is in
\* the output of _categorize_items with the category c, whatever its name,
\* amount and section.
C18_CategoryKept ==
    is_categorized =>
        \A i \in DOMAIN items :
            items[i].category \notin {None, "skip", "attendance"} =>
                \E j \in DOMAIN parsed.items :
                    /\ parsed.items[j].name = items[i].name
                    /\ parsed.items[j].amount = items[i].amount
                    /\ parsed.items[j].category = items[i].category

\* C19: no item of the output of _categorize_items has the category skip or
\* attendance, for every list given.
C19_NoSkipNoAttendance ==
    is_categorized =>
        \A j \in DOMAIN parsed.items : parsed.items[j].category \notin {"skip", "attendance"}

\* the deduction keywords C20 names: 税, 保険, 控除, 料, 差引
C20_keywords ==
    <<<<"u7A0E">>, <<"u4FDD", "u967A">>, <<"u63A7", "u9664">>, <<"u6599">>, <<"u5DEE", "u5F15">>>>

\* the attendance suffixes C20 names: 日数, 時間, 回, 回数, 人, 週
C20_suffixes ==
    <<<<"u65E5", "u6570">>, <<"u6642", "u9593">>, <<"u56DE">>, <<"u56DE", "u6570">>, <<"u4EBA">>,
      <<"u9031">>>>

\* the category C20 gives an item without category whose name is not in the table
C20_category(it) ==
    IF it.amount < 0 THEN "deduction"
    ELSE IF endswithAny(it.name, C20_suffixes) THEN "attendance"
    ELSE IF containsAny(it.name, C20_keywords) THEN "deduction"
    ELSE "payment"

\* C20: a list of items without category whose names are not in CATEGORY_MAP is
\* categorized item by item: amount < 0 gives deduction; else a name ending in an
\* attendance suffix gives attendance (the item is left out); else a name with
\* one of 税, 保険, 控除, 料, 差引 gives deduction; every other item gives payment.
C20_DecisionOrder ==
    /\ is_categorized
    /\ \A i \in DOMAIN items :
          items[i].category = None /\ dict_get(CATEGORY_MAP, items[i].name) = None
    => LET decided == [i \in DOMAIN items |-> C20_category(items[i])]
       IN  [j \in DOMAIN parsed.items |-> parsed.items[j].category] =
              SelectSeq(decided, LAMBDA c : c # "attendance")

\* the token is wrapped in parentheses
wrapped(t) == t # <<>> /\ Head(t) = "(" /\ t[Len(t)] = ")"

\* the digits of the token read without separators
magnitude(t) == digits_value(SelectSeq(translate(t), LAMBDA c : c \in Digit))

\* C21: the amount _clean_amount returns is negative for every token wrapped in
\* parentheses and for every token with a leading -, −, △ or ▲, positive for a
\* leading +, and its magnitude is the digits of the token, also for a
\* parenthesised token with an inner sign such as (-500).
C21_SignOfAmount ==
    pc = "resolved" =>
        /\ Abs(ret.val) = magnitude(arg)
        /\ wrapped(arg) \/ Head(arg) \in SignMinus => ret.val < 0
        /\ Head(arg) = "+" => ret.val > 0

\* C23: translating a translated string gives the same string.
C23_TranslateIdempotent == pc = "translated" => translate(ret) = ret

\* ５￥ translated to 5
C23_MappedCharsTranslated ==
    /\ pc = "translated"
    /\ arg = <<"uFF15", "uFFE5">>
    /\ ret = <<"5">>

\* 10^9: the least magnitude of more than MaxDigits digits
Overflow == 10^MaxDigits

\* C22: a token of more than 9 digits gives no item, no total and no attendance
\* record: every item amount, every total and every attendance quantity of
\* _parse_text is below 10^9 in magnitude.
C22_NoOverflowRecorded ==
    /\ \A i \in DOMAIN items : Abs(items[i].amount) < Overflow
    /\ \A i \in DOMAIN attendance : Abs(attendance[i][2]) < Overflow
    /\ gross # <<>> => Abs(gross[1]) < Overflow
    /\ deduction # <<>> => Abs(deduction[1]) < Overflow
    /\ net # <<>> => Abs(net[1]) < Overflow

token_iteration == pc \in {"pairs", "fallback"} /\ ret' # ret /\ pc' # "returned"

\* C25: every iteration of the token loops increases the token index, also where
\* the amount resolver fails, and the loops come to an end.
C25_TokenLoopsEnd ==
    /\ [][token_iteration /\ pc' = pc => ret'.i > ret.i]_vars
    /\ (pc = "pairs" ~> pc \in {"returned", "raised"})

\* the fallback loop has come to its end over a token the resolver rejects
C25_LoopEndedAfterOverflow ==
    /\ pc = "returned"
    /\ arg = <<L_kihonkyu, L_ten_digits, L_kihonkyu \o L_ten_digits>>
    /\ ret.i = 4

\* the pairs of the lines of two pairs
PairLines ==
    {<<L_kihonkyu_tsukin, <<<<L_kihonkyu, 250000>>, <<L_tsukin_teate, 30000>>>>>>,
     <<L_honkyu_tsukinhi, <<<<Upto(L_honkyu_tsukinhi, 2), 250000>>,
                           <<SubSeq(L_honkyu_tsukinhi, 11, 15), 12860>>>>>>}

\* C26: a line of two name/amount pairs read while the section S (payment or
\* deduction) is active and no other section is pending adds exactly its two
\* items, in line order, each with section S and category S.
C26_PairsOfLine ==
    [][\A p \in PairLines :
          /\ text' = Append(text, p[1])
          /\ current_section \in {"payment", "deduction"}
          /\ pending_section = None
          => new_items = [i \in 1..2 |->
                            PayslipItem(p[2][i][1], p[2][i][2], current_section, current_section)]]_vars

\* lines of one name and one amount, with the amount
ItemLines == {<<L_kihonkyu_100, 100>>, <<L_kihonkyu_250000, 250000>>}

\* C27: while _parse_text reads a text, the items already emitted stay as they
\* are, in their places, and a line "基本給 n" read outside the attendance
\* section, with no section pending, when an item named 基本給 is already there
\* adds a second item of that name at the end.
C27_ItemsAppendOnly ==
    [][text' # text =>
          /\ Len(items') >= Len(items)
          /\ SubSeq(items', 1, Len(items)) = items
          /\ \A l \in ItemLines :
                /\ text' = Append(text, l[1])
                /\ current_section # "attendance"
                /\ pending_section = None
                /\ \E k \in 1..Len(items) : items[k].name = L_kihonkyu
                => /\ Len(new_items) = 1
                   /\ new_items[1].name = L_kihonkyu
                   /\ new_items[1].amount = l[2]]_vars

\* two lines "基本給 250000" have been read and two items named 基本給 are there
C27_SameNameTwice ==
    /\ text = <<L_kihonkyu_250000, L_kihonkyu_250000>>
    /\ Len(items) = 2
    /\ items[1].name = L_kihonkyu
    /\ items[2].name = L_kihonkyu

\* the value the attendance dict holds for a key, <<>> when the key is absent
recorded(att, key) ==
    LET at == {k \in 1..Len(att) : att[k][1] = key}
    IN  IF at = {} THEN <<>> ELSE <<att[CHOOSE k \in at : TRUE][2]>>

\* the keys of the attendance dict
recorded_names(att) == {att[k][1] : k \in 1..Len(att)}

\* C28: while _parse_text reads a text, a quantity recorded for an attendance
\* name stays what it is: no later line changes or replaces it.
C28_AttendanceKept ==
    [][text' # text =>
          \A key \in recorded_names(attendance) :
              recorded(attendance', key) = recorded(attendance, key)]_vars

\* the section values of a PayslipItem
ItemSectionValues == {None, "payment", "deduction", "attendance", "other"}

\* C29: the section of every item of _parse_text is unset or one of payment,
\* deduction, attendance and other.
C29_SectionOfItems ==
    \A k \in 1..Len(items) : items[k].section \in ItemSectionValues

\* C30: every item of _parse_text has a non-empty name.
C30_ItemsNamed ==
    \A k \in 1..Len(items) : items[k].name # <<>>

\* the headers 支給項目, 控除項目 and 就業項目
ItemHeaders == {L_shikyu_komoku, L_kojo_komoku, L_shugyo_komoku}

\* C31: when the lines read so far are two or more of the headers 支給項目,
\* 控除項目, 就業項目, one per line, the line "基本給 250000" read next puts the
\* item 基本給 = 250000 at the end of the items.
C31_ItemAfterHeaders ==
    [][/\ text' = Append(text, L_kihonkyu_250000)
       /\ Len(text) >= 2
       /\ \A k \in 1..Len(text) : text[k] \in ItemHeaders
       => /\ Len(new_items) = 1
          /\ new_items[1].name = L_kihonkyu
          /\ new_items[1].amount = 250000]_vars

\* C33: _recalc_totals returns for every payload; when it has returned, the
\* gross is the one of the payload if no item is a payment entry, the deduction
\* is the one of the payload if no item is a deduction entry, and the net is
\* the gross minus the deduction.
C33_RecalcReturns ==
    /\ pc # "raised"
    /\ pc = "recalculated" =>
          /\ recalc_payments(arg.items) = <<>> => ret.gross_amount = arg.gross_amount
          /\ recalc_deductions(arg.items) = <<>> => ret.deduction_amount = arg.deduction_amount
          /\ ret.net_amount = <<ret.gross_amount[1] - ret.deduction_amount[1]>>

\* the line is a known section label, with or without colons and index digits
known_label_line(l) == section_label_line(translate(strip(l)))

\* C34: a line that is a known section label leaves the pending-name queue
\* empty, and a bare amount on the line after it adds no item.
C34_HeaderNotQueued ==
    [][text' # text =>
          /\ known_label_line(text'[Len(text')]) => pending_names' = <<>>
          /\ (/\ Len(text) > 0
              /\ known_label_line(text[Len(text)])
              /\ bare_amount(text'[Len(text')])) => new_items = <<>>]_vars

\* C35: the line "通勤手当1 住宅手当" leaves the name 通勤手当 in the pending-name
\* queue, and a bare amount 30000 on the next line makes the item 通勤手当 = 30000.
C35_IndexedNameQueued ==
    [][/\ (text' = Append(text, L_tsukin_teate_1_jutaku)
            => \E k \in 1..Len(pending_names') : pending_names'[k] = L_tsukin_teate)
       /\ (/\ Len(text) > 0
           /\ text[Len(text)] = L_tsukin_teate_1_jutaku
           /\ text' = Append(text, L_30000)
           => \E k \in 1..Len(new_items) :
                 new_items[k].name = L_tsukin_teate /\ new_items[k].amount = 30000)]_vars

\* C36: the closing marker is the one of the open section: it is 支給合計 only
\* while the section is payment, 控除合計 only while the section is deduction.
C36_MarkerOfOpenSection ==
    \A k \in DOMAIN SECTION_BEGIN :
        until_marker = SECTION_BEGIN[k][3] => current_section = SECTION_BEGIN[k][2]

\* s is t with some of its items left out, the others in their order
RECURSIVE selection_of(_, _)
selection_of(s, t) ==
    IF s = <<>> THEN TRUE
    ELSE IF t = <<>> THEN FALSE
    ELSE IF Head(s).name = Head(t).name /\ Head(s).amount = Head(t).amount
         THEN selection_of(Tail(s), Tail(t)) \/ selection_of(s, Tail(t))
         ELSE selection_of(s, Tail(t))

\* C37: _categorize_items returns an order-preserving selection of its input
\* with names and amounts unchanged, and applied to the list it returned it
\* returns that list again.
C37_CategorizeIdempotent ==
    /\ pc \in {"categorized", "recategorized"} => selection_of(parsed.items, items)
    /\ pc = "recategorized" => ret = parsed.items

\* the total a label of TOTAL_PAT stands for
total_kind(key) ==
    IF key \in {TOTAL_PAT[1], TOTAL_PAT[2]} THEN "gross"
    ELSE IF key \in {TOTAL_PAT[3], TOTAL_PAT[4]} THEN "deduction"
    ELSE "net"

\* the totals the text has a label for
found_totals(ls) ==
    LET ms == total_matches(join_lines(ls))
    IN  {total_kind(ms[i][1]) : i \in DOMAIN ms}

\* C39: TotalsOnlyParser.parse raises ValueError('Totals not found') or returns
\* gross, deduction and net all set; it raises only when the text has labels
\* for fewer than two of the three totals, and when it has labels for exactly
\* two, the third is derived so that gross - deduction = net.
C39_TotalsOnly ==
    /\ pc = "raised" =>
          /\ ret.raised = "Totals not found"
          /\ Cardinality(found_totals(arg)) < 2
    /\ pc = "parsed" =>
          /\ ret.gross # <<>> /\ ret.deduction # <<>> /\ ret.net # <<>>
          /\ Cardinality(found_totals(arg)) = 2 => ret.gross[1] - ret.deduction[1] = ret.net[1]

\* the ids of the payslips in the body of a 200 response of a list endpoint
listed_ids(r) == {r.body[k].id : k \in DOMAIN r.body}

\* a step of delete_payslip, get_payslip or update_payslip for the id, or of a
\* list endpoint, in which the stored ids are as C32 has them
absent_stays_absent ==
    /\ DOMAIN payslips' \ DOMAIN payslips # {} => arg'.op = "save"
    /\ arg'.op = "delete" =>
          IF arg'.id \in DOMAIN payslips
          THEN /\ ret'.status = 200
               /\ DOMAIN payslips' = DOMAIN payslips \ {arg'.id}
               /\ \A i \in DOMAIN payslips' : payslips'[i] = payslips[i]
          ELSE ret'.status = 404 /\ payslips' = payslips
    /\ arg'.op \in {"get", "update"} /\ arg'.id \notin DOMAIN payslips =>
          ret'.status = 404 /\ payslips' = payslips
    /\ arg'.op = "get" => payslips' = payslips
    /\ arg'.op \in {"list", "list_filtered"} =>
          /\ payslips' = payslips
          /\ ret'.status = 200 => listed_ids(ret') \subseteq DOMAIN payslips

\* C32: a successful delete_payslip removes the row of its id and no other; an
\* id enters the table only by a save; a list result holds only stored ids and
\* get_payslip answers 404 for an id that is not stored, so a deleted id stays
\* out of every later result until a save creates it again; delete_payslip,
\* get_payslip and update_payslip for an id that is not stored answer 404 and
\* leave the table unchanged.
C32_DeletedStaysAbsent == [][absent_stays_absent]_vars

\* a delete has succeeded and left another payslip stored
C32_Witness ==
    /\ arg.op = "delete"
    /\ ret.status = 200
    /\ arg.id \notin DOMAIN payslips
    /\ DOMAIN payslips # {}

\* a step of save_payslip, for a payload _recalc_totals returns on and whose
\* date parses, does what C38 has it do
save_rejects_or_stores ==
    arg'.op = "save" /\ ~_recalc_totals_raises(arg'.data) /\ _parse_date(arg'.data.date).ok =>
       LET payload == _recalc_totals(arg'.data)
           date_obj == _parse_date(arg'.data.date).date
           data_items == arg'.data.items
       IN  IF \E i \in DOMAIN payslips :
                 /\ payslips[i].date = date_obj
                 /\ payslips[i].type = payload.type
                 /\ payslips[i].net_amount = payload.net_amount
           THEN ret'.status = 409 /\ payslips' = payslips
           ELSE \E id \in DOMAIN payslips' \ DOMAIN payslips :
                   /\ DOMAIN payslips' = DOMAIN payslips \cup {id}
                   /\ \A i \in DOMAIN payslips : payslips'[i] = payslips[i]
                   /\ DOMAIN payslips'[id].items = DOMAIN data_items
                   /\ \A k \in DOMAIN data_items :
                         /\ payslips'[id].items[k].name = data_items[k].name
                         /\ payslips'[id].items[k].amount = data_items[k].amount
                         /\ payslips'[id].items[k].category = data_items[k].category

\* the result of list_payslips holds every stored payslip
list_holds_stored ==
    arg.op = "list" => ret.status = 200 /\ listed_ids(ret) = DOMAIN payslips

\* C38: save_payslip answers 409 and leaves the table unchanged when a stored
\* payslip has the date, the type and the recalculated net amount of the
\* payload; otherwise it stores exactly one new payslip with every item of the
\* payload, and list_payslips afterwards returns the stored payslips, the new
\* one among them.
C38_SaveRejectsDuplicates == [][save_rejects_or_stores]_vars /\ [](list_holds_stored)
====
